---- MODULE Spec2Model ----
(***************************************************************************)
(* strapi-plugin-rate-limit: the rate limiting engine (service), the       *)
(* global IP-keyed middleware and the route-level identity-keyed           *)
(* middleware, as a state machine.                                         *)
(*                                                                         *)
(* Strings the code inspects character by character (request paths, glob   *)
(* patterns) are sequences of one-character strings.  Identity keys        *)
(* `<kind>:<id>` are records [kind, id].  Time is Date.now() in ms.         *)
(***************************************************************************)
EXTENDS Integers, Sequences, FiniteSets, TLC

\* ------------------------------------------------------------------ bounds
MaxRequests == 3       \* requests that arrive in one behaviour
MaxInflight == 1       \* requests handled at the same time
MaxTick     == 2       \* clock ticks in one behaviour
MaxLimit    == 2       \* defaults.limit ranges over 1..MaxLimit
MaxPathLen  == 4       \* length of the generated request paths
MaxEntries  == 2       \* length of the generated allowlists
TickMs      == 600     \* ms by which one clock tick advances Date.now()
MaxCalls    == 3       \* calls of shouldWarn in a run of shouldWarn on its own
WarnLimit   == 5       \* the limit handed to shouldWarn
MaxRecords  == 3       \* calls of recordEvent in a run of the event buffer on its own
MaxClears   == 1       \* calls of clearEvents in a run
MaxMs       == 3000    \* msBeforeNext ranges over 0..MaxMs

\* the consumed points handed to shouldWarn: below 0.8 of WarnLimit and at it
WarnConsumed == {3, 4}

NoVal == "none"

\* ------------------------------------------------------ program constants
MAX_WARNED_KEYS == 10000
EVENT_CAPACITY == 100

\* ------------------------------------------------------------ path strings
Last(s) == s[Len(s)]

StartsWith(s, pre) == Len(s) >= Len(pre) /\ SubSeq(s, 1, Len(pre)) = pre

EndsWith(s, suf) ==
    Len(s) >= Len(suf) /\ SubSeq(s, Len(s) - Len(suf) + 1, Len(s)) = suf

\* a faulty variant of NormalizePath: the last character goes, whatever it is
NormalizePathChop(path) ==
    IF Len(path) > 1 THEN SubSeq(path, 1, Len(path) - 1) ELSE path

\* a faulty variant of NormalizePath: the path is used as it came
NormalizePathKeep(path) == path

\* ctx.path.endsWith('/') && ctx.path.length > 1 ? ctx.path.slice(0, -1) : ctx.path
NormalizePath(path) ==
    IF EndsWith(path, <<"/">>) /\ Len(path) > 1
    THEN SubSeq(path, 1, Len(path) - 1)
    ELSE path

\* ------------------------------------------------------------------ globs
\* picomatch(pattern) with its default options, for the pattern forms the
\* configuration uses: literal characters, `*` (one or more characters of
\* one segment) and a trailing `/**` (nothing, or `/` and anything after
\* it); a matched path may carry one more trailing slash.
RECURSIVE GlobFrom(_, _, _, _)
GlobFrom(pat, i, s, j) ==
    IF i > Len(pat)
    THEN j > Len(s) \/ (j = Len(s) /\ s[j] = "/")
    ELSE IF i + 2 = Len(pat) /\ SubSeq(pat, i, i + 2) = <<"/", "*", "*">>
    THEN j > Len(s) \/ s[j] = "/"
    ELSE IF pat[i] = "*"
    THEN \E k \in j..Len(s) :
            /\ \A m \in j..k : s[m] # "/"
            /\ GlobFrom(pat, i + 1, s, k + 1)
    ELSE j <= Len(s) /\ s[j] = pat[i] /\ GlobFrom(pat, i + 1, s, j + 1)

GlobMatch(pat, s) == GlobFrom(pat, 1, s, 1)

\* -------------------------------------------------------- duration strings
\* ms(value) of the `ms` package, for the interval strings configured here
Ms(value) ==
    CASE value = "1s" -> 1000
      [] value = "2s" -> 2000
      [] value = "3s" -> 3000
      [] value = "1m" -> 60000
      [] OTHER -> 0

\* ------------------------------------------------------------ IP addresses
\* ipaddr.parse(text): the address a text denotes, or no address.  IPv4 parts
\* are 4 octets, IPv6 parts 8 groups of 16 bits.
BadIp == [ok |-> FALSE, kind |-> NoVal, parts |-> <<>>]
V4(a, b, c, d) == [ok |-> TRUE, kind |-> "ipv4", parts |-> <<a, b, c, d>>]
V6(g) == [ok |-> TRUE, kind |-> "ipv6", parts |-> g]

IpParse(text) ==
    CASE text = "10.0.0.1" -> V4(10, 0, 0, 1)
      [] text = "10.0.2.9" -> V4(10, 0, 2, 9)
      [] text = "10.0.3.9" -> V4(10, 0, 3, 9)
      [] text = "10.9.9.9" -> V4(10, 9, 9, 9)
      [] text = "::ffff:10.0.0.1" -> V6(<<0, 0, 0, 0, 0, 65535, 2560, 1>>)
      [] text = "::ffff:a00:209" -> V6(<<0, 0, 0, 0, 0, 65535, 2560, 521>>)
      [] text = "::1" -> V6(<<0, 0, 0, 0, 0, 0, 0, 1>>)
      [] text = "0:0:0:0:0:0:0:1" -> V6(<<0, 0, 0, 0, 0, 0, 0, 1>>)
      [] text = "2001:db8::7" -> V6(<<8193, 3512, 0, 0, 0, 0, 0, 7>>)
      [] text = "2001:DB8:0:0:0:0:0:7" -> V6(<<8193, 3512, 0, 0, 0, 0, 0, 7>>)
      [] text = "2001:db9::7" -> V6(<<8193, 3513, 0, 0, 0, 0, 0, 7>>)
      [] OTHER -> BadIp

\* entry.includes('/')
HasSlash(text) ==
    text \in {"10.0.2.0/24", "10.0.0.0/99", "10.0.2.0/23", "2001:db8::/32",
              "::1/128", "abc/def"}

\* ipaddr.parseCIDR(text): [address, prefix length], or no CIDR (it throws)
BadCidr == [ok |-> FALSE, kind |-> NoVal, parts |-> <<>>, bits |-> 0]
Cidr(ip, n) == [ok |-> TRUE, kind |-> ip.kind, parts |-> ip.parts, bits |-> n]

CidrParse(text) ==
    CASE text = "10.0.2.0/24" -> Cidr(V4(10, 0, 2, 0), 24)
      [] text = "10.0.2.0/23" -> Cidr(V4(10, 0, 2, 0), 23)
      [] text = "2001:db8::/32" -> Cidr(V6(<<8193, 3512, 0, 0, 0, 0, 0, 0>>), 32)
      [] text = "::1/128" -> Cidr(V6(<<0, 0, 0, 0, 0, 0, 0, 1>>), 128)
      [] OTHER -> BadCidr

\* IPv6.isIPv4MappedAddress(): the address lies in ::ffff:0:0/96
IsV4Mapped(ip) ==
    /\ ip.kind = "ipv6"
    /\ \A i \in 1..5 : ip.parts[i] = 0
    /\ ip.parts[6] = 65535

\* ipaddr.process(text): parse, then an IPv4-mapped IPv6 address becomes IPv4
IpProcess(text) ==
    LET ip == IpParse(text) IN
    IF ip.ok /\ IsV4Mapped(ip)
    THEN V4(ip.parts[7] \div 256, ip.parts[7] % 256,
            ip.parts[8] \div 256, ip.parts[8] % 256)
    ELSE ip

Pow2(n) == 2 ^ n

\* ipaddr.matchCIDR(first, second, partSize, cidrBits), part counted from 1
RECURSIVE MatchCIDR(_, _, _, _, _)
MatchCIDR(first, second, partSize, cidrBits, part) ==
    IF cidrBits <= 0 THEN TRUE
    ELSE LET shift == IF partSize - cidrBits < 0 THEN 0 ELSE partSize - cidrBits IN
         /\ first[part] \div Pow2(shift) = second[part] \div Pow2(shift)
         /\ MatchCIDR(first, second, partSize, cidrBits - partSize, part + 1)

PartSize(kind) == IF kind = "ipv4" THEN 8 ELSE 16

\* parsed.match(cidr) inside its try block: a CIDR of the other family makes
\* match throw, and the entry is skipped
IpMatchesCidr(ip, cidr) ==
    /\ cidr.ok
    /\ cidr.kind = ip.kind
    /\ MatchCIDR(ip.parts, cidr.parts, PartSize(ip.kind), cidr.bits, 1)

\* one round of the loop of isIpInAllowlist over an entry
EntryMatches(parsed, entry) ==
    IF HasSlash(entry)
    THEN IpMatchesCidr(parsed, CidrParse(entry))
    ELSE LET entryParsed == IpProcess(entry) IN
         entryParsed.ok /\ entryParsed = parsed

\* a faulty variant of isIpInAllowlist: exact string membership, no parsing
IsIpInAllowlistExact(clientIp, entries) ==
    \E i \in 1..Len(entries) : entries[i] = clientIp

\* isIpInAllowlist(clientIp, entries)
IsIpInAllowlist(clientIp, entries) ==
    IF Len(entries) = 0 THEN FALSE
    ELSE LET parsed == IpProcess(clientIp) IN
         IF ~parsed.ok THEN FALSE
         ELSE \E i \in 1..Len(entries) : EntryMatches(parsed, entries[i])

\* ----------------------------------------------------------- configuration
Slash == <<"/">>
ApiPrefix == <<"/", "a", "p", "i", "/">>
PathGraphql == <<"/", "g", "r", "a", "p", "h", "q", "l">>
PathAdmin == <<"/", "a", "d", "m">>
PathArt == ApiPrefix \o <<"a">>                  \* '/api/a', a collection
PathArtIn == PathArt \o <<"/", "i">>             \* '/api/a/i'
PathAuth == ApiPrefix \o <<"u">>                 \* '/api/u', the auth routes
PathAuthIn == PathAuth \o <<"/", "i">>           \* '/api/u/i'
PathHc == ApiPrefix \o <<"h">>                   \* '/api/h', a health check

PatAuthAll == PathAuth \o <<"/", "*", "*">>      \* '/api/u/**'
PatAnyIn == ApiPrefix \o <<"*", "/", "i">>       \* '/api/*/i'

\* config.rules: the second rule also matches /api/auth/in, which the first
\* rule takes
\* rule.blockDuration of a rule that has none (undefined)
NoBlockDuration == -1

ConfigRules ==
    << [path |-> PatAuthAll, limit |-> 1, interval |-> "1s", blockDuration |-> 2],
       [path |-> PatAnyIn, limit |-> 2, interval |-> "2s",
        blockDuration |-> NoBlockDuration] >>

\* a validated plugin configuration (memory strategy: no redis.url/host)
PluginConfig(limit, blockDuration) ==
    [ defaults |-> [limit |-> limit, interval |-> "2s",
                    blockDuration |-> blockDuration],
      rules |-> ConfigRules,
      allowlist |-> [ips |-> <<"10.0.0.1", "10.0.2.0/24">>,
                     tokens |-> <<"42">>,
                     users |-> <<"7">>],
      exclude |-> <<PathHc>>,
      thresholdWarning |-> [num |-> 4, den |-> 5],     \* 0.8
      cloudflare |-> FALSE,
      redis |-> FALSE,                                 \* no redis.url/host
      inMemoryBlock |-> [enabled |-> FALSE, consumedThreshold |-> 0,
                         duration |-> "1s"],
      burst |-> [enabled |-> FALSE, points |-> 0, duration |-> "1s"] ]

Configs ==
    { PluginConfig(l, 0) : l \in 1..MaxLimit } \cup { PluginConfig(1, 3) }

NoConfig == [ defaults |-> [limit |-> 0, interval |-> NoVal, blockDuration |-> 0],
              rules |-> <<>>,
              allowlist |-> [ips |-> <<>>, tokens |-> <<>>, users |-> <<>>],
              exclude |-> <<>>,
              thresholdWarning |-> [num |-> 0, den |-> 1],
              cloudflare |-> FALSE,
              redis |-> FALSE,
              inMemoryBlock |-> [enabled |-> FALSE, consumedThreshold |-> 0,
                                 duration |-> "1s"],
              burst |-> [enabled |-> FALSE, points |-> 0, duration |-> "1s"] ]

\* ---------------------------------------------------------------- requests
Key(kind, id) == [kind |-> kind, id |-> id]

\* String(id) for the numeric ids of the principals
NumStr(n) ==
    CASE n = 7 -> "7" [] n = 42 -> "42" [] n = 43 -> "43" [] n = 99 -> "99"
      [] OTHER -> "0"

\* ctx.state.auth and ctx.state.user of a request; id 0 stands for no id
Anonymous == [strategy |-> NoVal, credId |-> 0, userId |-> 0]
ApiToken(id) == [strategy |-> "api-token", credId |-> id, userId |-> 0]
User(id) == [strategy |-> "users-permissions", credId |-> 1, userId |-> id]

\* the peers: one inside an allowlisted range, one outside every entry
IpListed == "10.0.2.9"
IpOther == "10.9.9.9"

ReqPaths == { PathArt, PathArt \o Slash, PathAuthIn, PathHc, PathAdmin }
ReqIps == { IpListed, IpOther }
ReqAuths == { Anonymous, ApiToken(42), User(99) }

\* the requests of the traffic: every content-API path anonymously and as a
\* user from the peer outside the allowlist, the collection from the
\* allowlisted peer, the collection with the allowlisted token, a path that
\* only the second rule matches, and a path outside the content API
Requests ==
    { [path |-> p, ip |-> IpOther, auth |-> a] :
          p \in ReqPaths \ {PathAdmin}, a \in {Anonymous, User(99)} }
    \cup { [path |-> PathArt, ip |-> IpListed, auth |-> a] :
               a \in {Anonymous, User(99)} }
    \cup { [path |-> PathArt, ip |-> IpOther, auth |-> ApiToken(42)],
           [path |-> PathArtIn, ip |-> IpOther, auth |-> Anonymous],
           [path |-> PathAdmin, ip |-> IpOther, auth |-> Anonymous] }

AllKeys ==
    { Key("ip", ip) : ip \in ReqIps }
    \cup { Key("token", NumStr(a.credId)) : a \in { x \in ReqAuths : x.strategy = "api-token" } }
    \cup { Key("user", NumStr(a.userId)) : a \in { x \in ReqAuths : x.strategy = "users-permissions" } }

LimiterIds == 0..Len(ConfigRules)     \* 0: defaultLimiter, i: ruleLimiters[i]

\* ------------------------------------------------------------------- state
VARIABLES
    enabled,       \* service: let enabled
    strategy,      \* service: let strategy
    config,        \* service: let config (NoConfig stands for null)
    store,         \* the MemoryStorage records of each limiter, by key
    warnedKeys,    \* service: warnedKeys, a Map in insertion order
    events,        \* event buffer, oldest first
    eventsTotal,   \* events recorded so far
    nextEventId,   \* id of the next event
    clock,         \* Date.now(), ms
    reqs,          \* the requests being handled, by slot
    arrived,       \* requests that have arrived
    windows,       \* per limiter and key: the running window, as an observer sees it
    fnIn,          \* input of a pure function under check
    fnOut,         \* its results
    redisReady     \* whether the Redis server answers the commands of redisClient

vars == << enabled, strategy, config, store, warnedKeys, events, eventsTotal,
           nextEventId, clock, reqs, arrived, windows, fnIn, fnOut, redisReady >>

engineVars == << enabled, strategy, config, store, warnedKeys, events,
                 eventsTotal, nextEventId, clock, reqs, arrived, windows,
                 redisReady >>

Slots == 1..MaxInflight

\* ------------------------------------------------------- RateLimiterMemory
NoRecord == [value |-> 0, expiresAt |-> 0]
Live(rec) == rec.value > 0

LimiterPoints(cfg, lim) ==
    IF lim = 0 THEN cfg.defaults.limit ELSE cfg.rules[lim].limit

LimiterIntervalMs(cfg, lim) ==
    IF lim = 0 THEN Ms(cfg.defaults.interval) ELSE Ms(cfg.rules[lim].interval)

\* blockDuration of the limiter, seconds: the rule limiters are given
\* config.defaults.blockDuration
LimiterBlockDuration(cfg, lim) == cfg.defaults.blockDuration

Max(a, b) == IF a >= b THEN a ELSE b

\* a faulty variant of StorageOf: every limiter counts in the storage of the default
StorageShared(lim) == 0

\* the MemoryStorage of a limiter: each `new RateLimiterMemory` owns one
StorageOf(lim) == lim

\* a faulty variant of MemIncrby: every increment of a running record starts
\* its duration anew
MemIncrbyProlongs(rec, durationMs, t) ==
    IF Live(rec) /\ rec.expiresAt - t > 0
    THEN [rec |-> [value |-> rec.value + 1, expiresAt |-> t + durationMs],
          msBeforeNext |-> durationMs,
          consumedPoints |-> rec.value + 1]
    ELSE [rec |-> [value |-> 1, expiresAt |-> t + durationMs],
          msBeforeNext |-> durationMs,
          consumedPoints |-> 1]

\* MemoryStorage.incrby(key, 1, durationSec): a record still running is
\* incremented, otherwise a record is set that expires a duration from now
MemIncrby(rec, durationMs, t) ==
    IF Live(rec) /\ rec.expiresAt - t > 0
    THEN [rec |-> [value |-> rec.value + 1, expiresAt |-> rec.expiresAt],
          msBeforeNext |-> rec.expiresAt - t,
          consumedPoints |-> rec.value + 1]
    ELSE [rec |-> [value |-> 1, expiresAt |-> t + durationMs],
          msBeforeNext |-> durationMs,
          consumedPoints |-> 1]

\* a faulty variant of MemConsume: the comparison admits one request too many
MemConsumeOffByOne(rec, points, durationMs, blockDuration, t) ==
    LET inc == MemIncrby(rec, durationMs, t) IN
    [rec |-> inc.rec,
     allowed |-> inc.consumedPoints <= points + 1,
     remainingPoints |-> Max(points - inc.consumedPoints, 0),
     msBeforeNext |-> inc.msBeforeNext,
     consumedPoints |-> inc.consumedPoints]

\* a faulty variant of MemConsume: remainingPoints is computed before the increment
MemConsumeStaleRemaining(rec, points, durationMs, blockDuration, t) ==
    LET inc == MemIncrby(rec, durationMs, t) IN
    [rec |-> inc.rec,
     allowed |-> inc.consumedPoints <= points,
     remainingPoints |-> Max(points - inc.consumedPoints + 1, 0),
     msBeforeNext |-> inc.msBeforeNext,
     consumedPoints |-> inc.consumedPoints]

\* RateLimiterMemory.consume(key): the record after it, whether the promise
\* resolves (allowed) or rejects, and the RateLimiterRes it carries.  The
\* first request over the limit blocks the key when blockDuration > 0.
MemConsume(rec, points, durationMs, blockDuration, t) ==
    LET inc == MemIncrby(rec, durationMs, t) IN
    IF inc.consumedPoints > points
    THEN IF blockDuration > 0 /\ inc.consumedPoints <= points + 1
         THEN [rec |-> [value |-> inc.consumedPoints,
                        expiresAt |-> t + blockDuration * 1000],
               allowed |-> FALSE,
               remainingPoints |-> 0,
               msBeforeNext |-> blockDuration * 1000,
               consumedPoints |-> inc.consumedPoints]
         ELSE [rec |-> inc.rec,
               allowed |-> FALSE,
               remainingPoints |-> Max(points - inc.consumedPoints, 0),
               msBeforeNext |-> inc.msBeforeNext,
               consumedPoints |-> inc.consumedPoints]
    ELSE [rec |-> inc.rec,
          allowed |-> TRUE,
          remainingPoints |-> Max(points - inc.consumedPoints, 0),
          msBeforeNext |-> inc.msBeforeNext,
          consumedPoints |-> inc.consumedPoints]

\* ----------------------------------------------------------------- service
\* a faulty variant of Resolve: the last matching rule wins
ResolveLastMatch(cfg, path) ==
    LET hits == { i \in 1..Len(cfg.rules) : GlobMatch(cfg.rules[i].path, path) } IN
    IF hits = {}
    THEN [limiter |-> 0, limit |-> cfg.defaults.limit,
          intervalMs |-> Ms(cfg.defaults.interval)]
    ELSE LET i == CHOOSE x \in hits : \A y \in hits : y <= x IN
         [limiter |-> i, limit |-> cfg.rules[i].limit,
          intervalMs |-> Ms(cfg.rules[i].interval)]

\* service.resolve(path): the first rule whose matcher accepts the path, or
\* the default limiter
RECURSIVE ResolveFrom(_, _, _)
ResolveFrom(cfg, path, i) ==
    IF i > Len(cfg.rules)
    THEN [limiter |-> 0, limit |-> cfg.defaults.limit,
          intervalMs |-> Ms(cfg.defaults.interval)]
    ELSE IF GlobMatch(cfg.rules[i].path, path)
    THEN [limiter |-> i, limit |-> cfg.rules[i].limit,
          intervalMs |-> Ms(cfg.rules[i].interval)]
    ELSE ResolveFrom(cfg, path, i + 1)

Resolve(cfg, path) == ResolveFrom(cfg, path, 1)

\* service.isExcluded(path)
IsExcluded(cfg, path) ==
    \E i \in 1..Len(cfg.exclude) : GlobMatch(cfg.exclude[i], path)

Includes(list, x) == \E i \in 1..Len(list) : list[i] = x

\* a faulty variant of IsAllowlisted: a token or user id is looked up in both
\* id lists
IsAllowlistedAnyList(key, cfg) ==
    IF key.kind = "ip" THEN \E i \in 1..Len(cfg.allowlist.ips) : cfg.allowlist.ips[i] = key.id
    ELSE IF key.kind \in {"token", "user"}
    THEN \/ \E i \in 1..Len(cfg.allowlist.tokens) : cfg.allowlist.tokens[i] = key.id
         \/ \E i \in 1..Len(cfg.allowlist.users) : cfg.allowlist.users[i] = key.id
    ELSE FALSE

\* a faulty variant of IsAllowlisted: no identity is allowlisted
IsAllowlistedNever(key, cfg) == FALSE

\* service.isAllowlisted(key, cfg)
IsAllowlisted(key, cfg) ==
    IF key.kind = "ip" THEN Includes(cfg.allowlist.ips, key.id)
    ELSE IF key.kind = "token" THEN Includes(cfg.allowlist.tokens, key.id)
    ELSE IF key.kind = "user" THEN Includes(cfg.allowlist.users, key.id)
    ELSE FALSE

\* the storages: one per limiter (its MemoryStorage, or its keys in Redis),
\* the MemoryStorage of the shared insurance limiter, one per burst limiter,
\* and the in-memory blocked keys of each Redis limiter
InsuranceStorage == Len(ConfigRules) + 1

BurstStorageOf(lim) == Len(ConfigRules) + 2 + lim

BlockStorageOf(lim) == 2 * Len(ConfigRules) + 3 + lim

StorageIds == 0..(3 * Len(ConfigRules) + 3)

Min(a, b) == IF a <= b THEN a ELSE b

\* what a consume yields: the storages after it, whether it failed with an
\* Error, and else the RateLimiterRes it resolved or rejected with
Outcome(st, error, allowed, remainingPoints, msBeforeNext, consumedPoints) ==
    [store |-> st, error |-> error, allowed |-> allowed,
     remainingPoints |-> remainingPoints, msBeforeNext |-> msBeforeNext,
     consumedPoints |-> consumedPoints]

\* the outcome of a consume that a RateLimiterMemory answered with r, its
\* record kept in storage sid
FromMemory(st, sid, key, r) ==
    Outcome([st EXCEPT ![sid][key] = r.rec], FALSE, r.allowed,
            r.remainingPoints, r.msBeforeNext, r.consumedPoints)

\* inMemoryBlockOnConsumed of the Redis limiter of quota lim, 0 when it is
\* undefined: the default limiter gets inMemoryBlock.consumedThreshold, or
\* twice defaults.limit when that is 0; a rule limiter gets twice rule.limit
InMemoryBlockOnConsumed(cfg, lim) ==
    IF ~cfg.inMemoryBlock.enabled THEN 0
    ELSE IF lim # 0 THEN 2 * cfg.rules[lim].limit
    ELSE IF cfg.inMemoryBlock.consumedThreshold = 0 THEN 2 * cfg.defaults.limit
    ELSE cfg.inMemoryBlock.consumedThreshold

\* RateLimiterRedis.consume(key) finds the key among its in-memory blocked
\* keys: it rejects without a command to Redis
BlockedInMemory(cfg, strat, lim, st, key, t) ==
    /\ strat = "redis"
    /\ Live(st[BlockStorageOf(lim)][key])
    /\ st[BlockStorageOf(lim)][key].expiresAt > t

\* RateLimiterRedis after Redis answered o: a rejection whose consumed
\* points reached inMemoryBlockOnConsumed puts the key among the in-memory
\* blocked keys for inMemoryBlock.duration
AfterConsume(cfg, lim, key, t, o) ==
    IF /\ ~o.allowed
       /\ InMemoryBlockOnConsumed(cfg, lim) > 0
       /\ o.consumedPoints >= InMemoryBlockOnConsumed(cfg, lim)
    THEN Outcome([o.store EXCEPT ![BlockStorageOf(lim)][key] =
                     [value |-> 1,
                      expiresAt |-> t + Ms(cfg.inMemoryBlock.duration)]],
                 FALSE, FALSE, o.remainingPoints,
                 Ms(cfg.inMemoryBlock.duration), o.consumedPoints)
    ELSE o

\* consume(key) of the limiter built for quota lim before maybeBurst wraps
\* it.  A RateLimiterMemory counts in its own storage.  A RateLimiterRedis
\* counts in Redis; when the command fails it hands the key to the shared
\* insuranceLimiter, a RateLimiterMemory of config.defaults.limit points per
\* config.defaults.interval that was given the limiter's blockDuration.
BaseConsume(cfg, strat, up, lim, st, key, t) ==
    IF BlockedInMemory(cfg, strat, lim, st, key, t)
    THEN Outcome(st, FALSE, FALSE, 0, st[BlockStorageOf(lim)][key].expiresAt - t, 0)
    ELSE IF strat = "redis" /\ ~up
    THEN FromMemory(st, InsuranceStorage, key,
                    MemConsume(st[InsuranceStorage][key], cfg.defaults.limit,
                               Ms(cfg.defaults.interval),
                               LimiterBlockDuration(cfg, lim), t))
    ELSE IF strat = "redis"
    THEN AfterConsume(cfg, lim, key, t,
            FromMemory(st, StorageOf(lim), key,
                       MemConsume(st[StorageOf(lim)][key], LimiterPoints(cfg, lim),
                                  LimiterIntervalMs(cfg, lim),
                                  LimiterBlockDuration(cfg, lim), t)))
    ELSE FromMemory(st, StorageOf(lim), key,
                    MemConsume(st[StorageOf(lim)][key], LimiterPoints(cfg, lim),
                               LimiterIntervalMs(cfg, lim),
                               LimiterBlockDuration(cfg, lim), t))

\* consume(key) of the burst limiter of quota lim: in Redis strategy a
\* RateLimiterRedis without insuranceLimiter, which rejects with the Error
\* of the failed command
BurstConsume(cfg, strat, up, lim, st, key, t) ==
    IF strat = "redis" /\ ~up
    THEN Outcome(st, TRUE, FALSE, 0, 0, 0)
    ELSE FromMemory(st, BurstStorageOf(lim), key,
                    MemConsume(st[BurstStorageOf(lim)][key], cfg.burst.points,
                               Ms(cfg.burst.duration), 0, t))

\* BurstyRateLimiter: the rejection b of the base limiter and the answer u of
\* the burst limiter, combined
CombineRes(b, u) ==
    IF u.error
    THEN Outcome(b.store, TRUE, FALSE, 0, 0, 0)
    ELSE Outcome(u.store, FALSE, u.allowed, b.remainingPoints,
                 Min(b.msBeforeNext, u.msBeforeNext), b.consumedPoints)

\* BurstyRateLimiter.consume(key) once the base limiter answered b: the burst
\* limiter is asked when the base limiter rejects
Bursty(cfg, strat, up, lim, key, t, b) ==
    IF b.allowed
    THEN b
    ELSE CombineRes(b, BurstConsume(cfg, strat, up, lim, b.store, key, t))

\* limiter.consume(key) of the limiter service.resolve returns: the base
\* limiter, or the BurstyRateLimiter maybeBurst puts around it
LimiterConsume(cfg, strat, up, lim, st, key, t) ==
    IF cfg.burst.enabled
    THEN Bursty(cfg, strat, up, lim, key, t,
                BaseConsume(cfg, strat, up, lim, st, key, t))
    ELSE BaseConsume(cfg, strat, up, lim, st, key, t)

\* what service.consume returns for the outcome c of limiter.consume, a
\* storage error being answered like a rejection
AnswerReject(c, limit) ==
    [store |-> c.store, allowed |-> c.allowed, hasRes |-> TRUE,
     limit |-> limit, remainingPoints |-> c.remainingPoints,
     msBeforeNext |-> c.msBeforeNext, consumedPoints |-> c.consumedPoints]

\* what service.consume returns for the outcome c of limiter.consume: a
\* RateLimiterRes that resolved or rejected is handed on, any other error is
\* logged and answered with { allowed: true, res: null, limit: 0 }
Answer(c, limit) ==
    IF c.error
    THEN [store |-> c.store, allowed |-> TRUE, hasRes |-> FALSE, limit |-> 0,
          remainingPoints |-> 0, msBeforeNext |-> 0, consumedPoints |-> 0]
    ELSE [store |-> c.store, allowed |-> c.allowed, hasRes |-> TRUE,
          limit |-> limit, remainingPoints |-> c.remainingPoints,
          msBeforeNext |-> c.msBeforeNext, consumedPoints |-> c.consumedPoints]

\* a faulty variant of ServiceConsume: a storage error is answered like a
\* rejection
ServiceConsumeReject(cfg, strat, up, lim, limit, st, key, t) ==
    AnswerReject(LimiterConsume(cfg, strat, up, lim, st, key, t), limit)

\* service.consume(key, limiter, limit)
ServiceConsume(cfg, strat, up, lim, limit, st, key, t) ==
    Answer(LimiterConsume(cfg, strat, up, lim, st, key, t), limit)

\* position of a key in warnedKeys, 0 when it has no entry
WarnedIndex(map, key) ==
    IF \E i \in 1..Len(map) : map[i].key = key
    THEN CHOOSE i \in 1..Len(map) : map[i].key = key
    ELSE 0

Remove(seq, i) == SubSeq(seq, 1, i - 1) \o SubSeq(seq, i + 1, Len(seq))

\* a faulty variant of ShouldWarn: a live entry does not suppress
ShouldWarnNoDedup(cfg, map, key, consumedPoints, limit, windowDurationMs, t) ==
    IF cfg = NoConfig \/ cfg.thresholdWarning.num = 0
    THEN [warn |-> FALSE, map |-> map]
    ELSE LET i == WarnedIndex(map, key)
             m1 == IF i > 0 THEN Remove(map, i) ELSE map
         IN
         IF consumedPoints * cfg.thresholdWarning.den
                >= limit * cfg.thresholdWarning.num
         THEN LET m2 == IF Len(m1) >= MAX_WARNED_KEYS THEN Tail(m1) ELSE m1 IN
              [warn |-> TRUE,
               map |-> Append(m2, [key |-> key, expiry |-> t + windowDurationMs])]
         ELSE [warn |-> FALSE, map |-> map]

\* a faulty variant of ShouldWarn: at the cap the youngest entry makes room
ShouldWarnEvictNewest(cfg, map, key, consumedPoints, limit, windowDurationMs, t) ==
    IF cfg = NoConfig \/ cfg.thresholdWarning.num = 0
    THEN [warn |-> FALSE, map |-> map]
    ELSE LET i == WarnedIndex(map, key) IN
         IF i > 0 /\ t < map[i].expiry
         THEN [warn |-> FALSE, map |-> map]
         ELSE LET m1 == IF i > 0 THEN Remove(map, i) ELSE map IN
              IF consumedPoints * cfg.thresholdWarning.den
                     >= limit * cfg.thresholdWarning.num
              THEN LET m2 == IF Len(m1) >= MAX_WARNED_KEYS
                             THEN SubSeq(m1, 1, Len(m1) - 1) ELSE m1 IN
                   [warn |-> TRUE,
                    map |-> Append(m2, [key |-> key, expiry |-> t + windowDurationMs])]
              ELSE [warn |-> FALSE, map |-> m1]

\* a faulty variant of ShouldWarn: a suppressed call renews the entry
ShouldWarnRenew(cfg, map, key, consumedPoints, limit, windowDurationMs, t) ==
    IF cfg = NoConfig \/ cfg.thresholdWarning.num = 0
    THEN [warn |-> FALSE, map |-> map]
    ELSE LET i == WarnedIndex(map, key) IN
         IF i > 0 /\ t < map[i].expiry
         THEN [warn |-> FALSE,
               map |-> [map EXCEPT ![i].expiry = t + windowDurationMs]]
         ELSE LET m1 == IF i > 0 THEN Remove(map, i) ELSE map IN
              IF consumedPoints * cfg.thresholdWarning.den
                     >= limit * cfg.thresholdWarning.num
              THEN LET m2 == IF Len(m1) >= MAX_WARNED_KEYS THEN Tail(m1) ELSE m1 IN
                   [warn |-> TRUE,
                    map |-> Append(m2, [key |-> key, expiry |-> t + windowDurationMs])]
              ELSE [warn |-> FALSE, map |-> m1]

\* a faulty variant of ShouldWarn: the threshold itself does not warn
ShouldWarnAbove(cfg, map, key, consumedPoints, limit, windowDurationMs, t) ==
    IF cfg = NoConfig \/ cfg.thresholdWarning.num = 0
    THEN [warn |-> FALSE, map |-> map]
    ELSE LET i == WarnedIndex(map, key) IN
         IF i > 0 /\ t < map[i].expiry
         THEN [warn |-> FALSE, map |-> map]
         ELSE LET m1 == IF i > 0 THEN Remove(map, i) ELSE map IN
              IF consumedPoints * cfg.thresholdWarning.den
                     > limit * cfg.thresholdWarning.num
              THEN LET m2 == IF Len(m1) >= MAX_WARNED_KEYS THEN Tail(m1) ELSE m1 IN
                   [warn |-> TRUE,
                    map |-> Append(m2, [key |-> key, expiry |-> t + windowDurationMs])]
              ELSE [warn |-> FALSE, map |-> m1]

\* service.shouldWarn(key, consumedPoints, limit, windowDurationMs): the
\* answer and warnedKeys after the call
ShouldWarn(cfg, map, key, consumedPoints, limit, windowDurationMs, t) ==
    IF cfg = NoConfig \/ cfg.thresholdWarning.num = 0
    THEN [warn |-> FALSE, map |-> map]
    ELSE LET i == WarnedIndex(map, key) IN
         IF i > 0 /\ t < map[i].expiry
         THEN [warn |-> FALSE, map |-> map]
         ELSE LET m1 == IF i > 0 THEN Remove(map, i) ELSE map IN
              IF consumedPoints * cfg.thresholdWarning.den
                     >= limit * cfg.thresholdWarning.num
              THEN LET m2 == IF Len(m1) >= MAX_WARNED_KEYS THEN Tail(m1) ELSE m1 IN
                   [warn |-> TRUE,
                    map |-> Append(m2, [key |-> key, expiry |-> t + windowDurationMs])]
              ELSE [warn |-> FALSE, map |-> m1]

\* ------------------------------------------------------------- middlewares
NoBody ==
    [data |-> NoVal,
     error |-> [status |-> 0, name |-> NoVal, message |-> NoVal, details |-> NoVal]]

NoHeaders == [limit |-> -1, remaining |-> -1, reset |-> -1, retryAfter |-> -1]

NoPending ==
    [lim |-> 0, key |-> Key(NoVal, NoVal), path |-> <<>>, intervalMs |-> 0,
     allowed |-> FALSE, hasRes |-> FALSE, limit |-> 0, remainingPoints |-> 0,
     msBeforeNext |-> 0, consumedPoints |-> 0]

\* a request slot: the koa context (path, peer ip, CF-Connecting-IP header,
\* state.auth, status, body, response headers), where its handling stands,
\* the result a middleware awaits, and what an observer noted of it
IdleReq ==
    [pc |-> "idle", path |-> <<>>, ip |-> NoVal, cfIp |-> "", auth |-> Anonymous,
     routeMw |-> FALSE, status |-> 200, body |-> NoBody, headers |-> NoHeaders,
     nextCalls |-> 0, errors |-> 0, faults |-> 0, pending |-> NoPending,
     out |-> <<>>]

TOO_MANY_REQUESTS_BODY ==
    [data |-> NoVal,
     error |-> [status |-> 429, name |-> "TooManyRequestsError",
                message |-> "Too many requests, please try again later.",
                details |-> <<>>]]     \* details: {}

\* resolveClientIp(ctx, cloudflare)
ResolveClientIp(req, cloudflare) ==
    IF cloudflare /\ req.cfIp # "" THEN req.cfIp ELSE req.ip

\* a faulty variant of ResolveClientKey: credentials with an id make a token
\* key whatever the strategy
ResolveClientKeyByCredentials(req, cloudflare) ==
    IF req.auth.credId # 0
    THEN Key("token", NumStr(req.auth.credId))
    ELSE IF req.auth.userId # 0
    THEN Key("user", NumStr(req.auth.userId))
    ELSE Key("ip", ResolveClientIp(req, cloudflare))

\* resolveClientKey(ctx, cloudflare)
ResolveClientKey(req, cloudflare) ==
    IF req.auth.strategy = "api-token" /\ req.auth.credId # 0
    THEN Key("token", NumStr(req.auth.credId))
    ELSE IF req.auth.strategy = "users-permissions" /\ req.auth.userId # 0
    THEN Key("user", NumStr(req.auth.userId))
    ELSE Key("ip", ResolveClientIp(req, cloudflare))

\* Math.ceil((Date.now() + msBeforeNext) / 1000)
ResetSeconds(t, msBeforeNext) == (t + msBeforeNext + 999) \div 1000

\* a faulty variant of RetryAfterSeconds: Math.round(msBeforeNext / 1000)
RetryAfterRounded(msBeforeNext) == (msBeforeNext + 500) \div 1000

\* Math.round(msBeforeNext / 1000) || 1
RetryAfterSeconds(msBeforeNext) ==
    LET rounded == (msBeforeNext + 500) \div 1000 IN
    IF rounded = 0 THEN 1 ELSE rounded

\* the window of a limiter and key as an observer of the admissions counts
\* it: it opens with an admission and lasts the limiter's interval
NoWindow == [start |-> -1, attempts |-> 0, admitted |-> 0]

InWindow(win, intervalMs, t) == win.start >= 0 /\ t < win.start + intervalMs

Observe(win, intervalMs, allowed, t) ==
    IF InWindow(win, intervalMs, t)
    THEN [start |-> win.start, attempts |-> win.attempts + 1,
          admitted |-> win.admitted + (IF allowed THEN 1 ELSE 0)]
    ELSE IF allowed THEN [start |-> t, attempts |-> 1, admitted |-> 1]
    ELSE NoWindow

\* next(): the route-level middleware when the matched route carries it,
\* else the handler
Downstream(req) == IF req.routeMw THEN "route" ELSE "done"

\* the routes whose config names the route-level middleware; the router
\* matches a path with or without its trailing slash
RouteLevelPaths == {PathArt, PathHc}

HasRouteMw(path) == NormalizePath(path) \in RouteLevelPaths

\* a faulty variant of CallNext: the handler downstream is invoked twice
CallNextTwice(req, to) ==
    [req EXCEPT !.pc = to, !.nextCalls = @ + 2, !.pending = NoPending]

CallNext(req, to) ==
    [req EXCEPT !.pc = to, !.nextCalls = @ + 1, !.pending = NoPending]

\* the part of a middleware from resolve to the call of limiter.consume: the
\* request is left awaiting the result
StartConsume(r, req, mw, key, path) ==
    LET res == Resolve(config, path)
        win == windows[res.limiter][key]
        c == ServiceConsume(config, strategy, redisReady, res.limiter, res.limit,
                            store, key, clock)
        w == Observe(win, LimiterIntervalMs(config, res.limiter), c.allowed, clock)
    IN
    /\ store' = c.store
    /\ windows' = [windows EXCEPT ![res.limiter][key] = w]
    /\ reqs' = [reqs EXCEPT ![r] =
          [req EXCEPT
             !.pc = IF mw = "global" THEN "globalWait" ELSE "routeWait",
             !.errors = IF c.hasRes THEN @ ELSE @ + 1,
             !.pending = [lim |-> res.limiter, key |-> key, path |-> path,
                          intervalMs |-> res.intervalMs, allowed |-> c.allowed,
                          hasRes |-> c.hasRes, limit |-> c.limit,
                          remainingPoints |-> c.remainingPoints,
                          msBeforeNext |-> c.msBeforeNext,
                          consumedPoints |-> c.consumedPoints],
             !.out = Append(@, [mw |-> mw, lim |-> res.limiter, key |-> key,
                                path |-> path, allowed |-> c.allowed,
                                ord |-> w.attempts,
                                adm |-> IF c.allowed THEN w.admitted ELSE 0,
                                points |-> LimiterPoints(config, res.limiter),
                                hasRes |-> c.hasRes,
                                answered |-> FALSE, headers |-> NoHeaders,
                                event |-> NoVal])]]

\* a faulty variant of RecordEvent: a full buffer keeps its oldest events and
\* drops the new one
RecordEventKeepOldest(buf, id, type, source, p, t) ==
    LET ev == [id |-> id, timestamp |-> t, type |-> type, clientKey |-> p.key,
               path |-> p.path, source |-> source,
               consumedPoints |-> p.consumedPoints, limit |-> p.limit,
               msBeforeNext |-> p.msBeforeNext]
    IN IF Len(buf) >= EVENT_CAPACITY THEN buf ELSE Append(buf, ev)

\* service.recordEvent(event): id and timestamp are assigned, the buffer
\* keeps the EVENT_CAPACITY most recent events
RecordEvent(buf, id, type, source, p, t) ==
    LET ev == [id |-> id, timestamp |-> t, type |-> type, clientKey |-> p.key,
               path |-> p.path, source |-> source,
               consumedPoints |-> p.consumedPoints, limit |-> p.limit,
               msBeforeNext |-> p.msBeforeNext]
        all == Append(buf, ev)
    IN IF Len(all) > EVENT_CAPACITY THEN Tail(all) ELSE all

\* a faulty variant of Resume: an admitted request gets no headers
ResumeNoHeadersOnPass(r, mw, to) ==
    LET req == reqs[r]
        p == req.pending
        n == Len(req.out)
    IN
    IF ~p.hasRes
    THEN /\ reqs' = [reqs EXCEPT ![r] =
               [CallNext(req, to) EXCEPT !.out[n].answered = TRUE]]
         /\ UNCHANGED << warnedKeys, events, eventsTotal, nextEventId >>
    ELSE IF p.allowed
    THEN LET sw == ShouldWarn(config, warnedKeys, p.key, p.consumedPoints,
                              p.limit, p.intervalMs, clock)
         IN
         /\ warnedKeys' = sw.map
         /\ IF sw.warn
            THEN /\ events' = RecordEvent(events, nextEventId, "warning", mw, p, clock)
                 /\ eventsTotal' = eventsTotal + 1
                 /\ nextEventId' = nextEventId + 1
            ELSE UNCHANGED << events, eventsTotal, nextEventId >>
         /\ reqs' = [reqs EXCEPT ![r] =
               [CallNext(req, to) EXCEPT
                  !.out[n].answered = TRUE,
                  !.out[n].event = IF sw.warn THEN "warning" ELSE NoVal]]
    ELSE LET hdr == [limit |-> p.limit, remaining |-> 0,
                     reset |-> ResetSeconds(clock, p.msBeforeNext),
                     retryAfter |-> RetryAfterSeconds(p.msBeforeNext)]
         IN
         /\ events' = RecordEvent(events, nextEventId, "blocked", mw, p, clock)
         /\ eventsTotal' = eventsTotal + 1
         /\ nextEventId' = nextEventId + 1
         /\ UNCHANGED warnedKeys
         /\ reqs' = [reqs EXCEPT ![r] =
               [req EXCEPT
                  !.pc = "done", !.status = 429, !.body = TOO_MANY_REQUESTS_BODY,
                  !.headers = hdr, !.pending = NoPending,
                  !.out[n].answered = TRUE,
                  !.out[n].headers = hdr,
                  !.out[n].event = "blocked"]]

\* a faulty variant of Resume: a rejection falls through to the next
\* middleware
ResumeRejectFallsThrough(r, mw, to) ==
    LET req == reqs[r]
        p == req.pending
        n == Len(req.out)
    IN
    IF ~p.hasRes
    THEN /\ reqs' = [reqs EXCEPT ![r] =
               [CallNext(req, to) EXCEPT !.out[n].answered = TRUE]]
         /\ UNCHANGED << warnedKeys, events, eventsTotal, nextEventId >>
    ELSE IF p.allowed
    THEN LET hdr == [req.headers EXCEPT
                        !.limit = p.limit,
                        !.remaining = p.remainingPoints,
                        !.reset = ResetSeconds(clock, p.msBeforeNext)]
             sw == ShouldWarn(config, warnedKeys, p.key, p.consumedPoints,
                              p.limit, p.intervalMs, clock)
         IN
         /\ warnedKeys' = sw.map
         /\ IF sw.warn
            THEN /\ events' = RecordEvent(events, nextEventId, "warning", mw, p, clock)
                 /\ eventsTotal' = eventsTotal + 1
                 /\ nextEventId' = nextEventId + 1
            ELSE UNCHANGED << events, eventsTotal, nextEventId >>
         /\ reqs' = [reqs EXCEPT ![r] =
               [CallNext(req, to) EXCEPT
                  !.headers = hdr,
                  !.out[n].answered = TRUE,
                  !.out[n].headers = hdr,
                  !.out[n].event = IF sw.warn THEN "warning" ELSE NoVal]]
    ELSE LET hdr == [limit |-> p.limit, remaining |-> 0,
                     reset |-> ResetSeconds(clock, p.msBeforeNext),
                     retryAfter |-> RetryAfterSeconds(p.msBeforeNext)]
         IN
         /\ events' = RecordEvent(events, nextEventId, "blocked", mw, p, clock)
         /\ eventsTotal' = eventsTotal + 1
         /\ nextEventId' = nextEventId + 1
         /\ UNCHANGED warnedKeys
         /\ reqs' = [reqs EXCEPT ![r] =
               [req EXCEPT
                  !.pc = to, !.status = 429, !.body = TOO_MANY_REQUESTS_BODY,
                  !.headers = hdr, !.pending = NoPending,
                  !.out[n].answered = TRUE,
                  !.out[n].headers = hdr,
                  !.out[n].event = "blocked"]]

\* the part of a middleware after `await service.consume(...)`
Resume(r, mw, to) ==
    LET req == reqs[r]
        p == req.pending
        n == Len(req.out)
    IN
    IF ~p.hasRes
    THEN \* storage error: fail open, no header is set
         /\ reqs' = [reqs EXCEPT ![r] =
               [CallNext(req, to) EXCEPT !.out[n].answered = TRUE]]
         /\ UNCHANGED << warnedKeys, events, eventsTotal, nextEventId >>
    ELSE IF p.allowed
    THEN LET hdr == [req.headers EXCEPT
                        !.limit = p.limit,
                        !.remaining = p.remainingPoints,
                        !.reset = ResetSeconds(clock, p.msBeforeNext)]
             sw == ShouldWarn(config, warnedKeys, p.key, p.consumedPoints,
                              p.limit, p.intervalMs, clock)
         IN
         /\ warnedKeys' = sw.map
         /\ IF sw.warn
            THEN /\ events' = RecordEvent(events, nextEventId, "warning", mw, p, clock)
                 /\ eventsTotal' = eventsTotal + 1
                 /\ nextEventId' = nextEventId + 1
            ELSE UNCHANGED << events, eventsTotal, nextEventId >>
         /\ reqs' = [reqs EXCEPT ![r] =
               [CallNext(req, to) EXCEPT
                  !.headers = hdr,
                  !.out[n].answered = TRUE,
                  !.out[n].headers = hdr,
                  !.out[n].event = IF sw.warn THEN "warning" ELSE NoVal]]
    ELSE LET hdr == [limit |-> p.limit, remaining |-> 0,
                     reset |-> ResetSeconds(clock, p.msBeforeNext),
                     retryAfter |-> RetryAfterSeconds(p.msBeforeNext)]
         IN
         /\ events' = RecordEvent(events, nextEventId, "blocked", mw, p, clock)
         /\ eventsTotal' = eventsTotal + 1
         /\ nextEventId' = nextEventId + 1
         /\ UNCHANGED warnedKeys
         /\ reqs' = [reqs EXCEPT ![r] =
               [req EXCEPT
                  !.pc = "done", !.status = 429, !.body = TOO_MANY_REQUESTS_BODY,
                  !.headers = hdr, !.pending = NoPending,
                  !.out[n].answered = TRUE,
                  !.out[n].headers = hdr,
                  !.out[n].event = "blocked"]]

IsContentApi(path) == StartsWith(path, ApiPrefix) \/ path = PathGraphql

\* a slot is free when it holds no request
Free(r) == reqs[r].pc = "idle"

\* a request arrives: globalRateLimit(ctx, next) up to `await service.consume(...)`
GlobalMw(r, path, ip, auth) ==
    /\ arrived < MaxRequests
    /\ Free(r)
    /\ \A q \in Slots : q < r => ~Free(q)
    /\ arrived' = arrived + 1
    /\ LET req == [IdleReq EXCEPT !.pc = "global", !.path = path, !.ip = ip,
                                  !.auth = auth, !.routeMw = HasRouteMw(path)]
           normalizedPath == NormalizePath(req.path)
           clientIp == ResolveClientIp(req, config.cloudflare)
       IN
       IF \/ ~IsContentApi(normalizedPath)
          \/ ~enabled
          \/ IsExcluded(config, normalizedPath)
          \/ IsIpInAllowlist(clientIp, config.allowlist.ips)
       THEN /\ reqs' = [reqs EXCEPT ![r] = CallNext(req, Downstream(req))]
            /\ UNCHANGED << store, windows >>
       ELSE StartConsume(r, req, "global", Key("ip", clientIp), normalizedPath)
    /\ UNCHANGED << enabled, strategy, config, warnedKeys, events, eventsTotal,
                    nextEventId, clock, fnIn, fnOut, redisReady >>

\* globalRateLimit(ctx, next) after the await
GlobalResume(r) ==
    /\ reqs[r].pc = "globalWait"
    /\ Resume(r, "global", Downstream(reqs[r]))
    /\ UNCHANGED << enabled, strategy, config, store, clock, arrived, windows,
                    fnIn, fnOut, redisReady >>

\* a faulty variant of RouteMw: a request with an 'ip:' key is not skipped
RouteMwConsumesIp(r) ==
    /\ reqs[r].pc = "route"
    /\ LET req == reqs[r]
           clientKey == ResolveClientKey(req, config.cloudflare)
       IN
       IF \/ ~enabled
          \/ IsAllowlisted(clientKey, config)
       THEN /\ reqs' = [reqs EXCEPT ![r] = CallNext(req, "done")]
            /\ UNCHANGED << store, windows >>
       ELSE StartConsume(r, req, "route", clientKey, NormalizePath(req.path))
    /\ UNCHANGED << enabled, strategy, config, warnedKeys, events, eventsTotal,
                    nextEventId, clock, arrived, fnIn, fnOut, redisReady >>

\* the route-level middleware up to `await service.consume(...)`
RouteMw(r) ==
    /\ reqs[r].pc = "route"
    /\ LET req == reqs[r]
           clientKey == ResolveClientKey(req, config.cloudflare)
       IN
       IF \/ ~enabled
          \/ clientKey.kind = "ip"
          \/ IsAllowlisted(clientKey, config)
       THEN /\ reqs' = [reqs EXCEPT ![r] = CallNext(req, "done")]
            /\ UNCHANGED << store, windows >>
       ELSE StartConsume(r, req, "route", clientKey, NormalizePath(req.path))
    /\ UNCHANGED << enabled, strategy, config, warnedKeys, events, eventsTotal,
                    nextEventId, clock, arrived, fnIn, fnOut, redisReady >>

\* the route-level middleware after the await
RouteResume(r) ==
    /\ reqs[r].pc = "routeWait"
    /\ Resume(r, "route", "done")
    /\ UNCHANGED << enabled, strategy, config, store, clock, arrived, windows,
                    fnIn, fnOut, redisReady >>

\* a faulty variant of Catch: the exception leaves the middleware
CatchRethrow(req, to) ==
    [req EXCEPT !.pc = "threw", !.faults = @ + 1, !.pending = NoPending]

\* a step of a middleware throws: the catch block around the whole body logs
\* the error and returns next()
Catch(req, to) ==
    [CallNext(req, to) EXCEPT !.errors = @ + 1, !.faults = @ + 1]

\* the calls of globalRateLimit before the await that may throw, in order
GlobalSteps ==
    << "service", "isExcluded", "resolveClientIp", "isIpInAllowlist", "resolve",
       "consume" >>

\* globalRateLimit(ctx, next) when its step number n throws: the steps
\* before it ran and did not return; none of them assigns anything
GlobalMwThrow(r, path, ip, auth, n) ==
    /\ arrived < MaxRequests
    /\ Free(r)
    /\ \A q \in Slots : q < r => ~Free(q)
    /\ arrived' = arrived + 1
    /\ LET req == [IdleReq EXCEPT !.pc = "global", !.path = path, !.ip = ip,
                                  !.auth = auth, !.routeMw = HasRouteMw(path)]
           normalizedPath == NormalizePath(req.path)
           clientIp == ResolveClientIp(req, config.cloudflare)
       IN
       /\ IsContentApi(normalizedPath)
       /\ n > 1 => enabled
       /\ n > 2 => ~IsExcluded(config, normalizedPath)
       /\ n > 4 => ~IsIpInAllowlist(clientIp, config.allowlist.ips)
       /\ reqs' = [reqs EXCEPT ![r] = Catch(req, Downstream(req))]
    /\ UNCHANGED << enabled, strategy, config, store, warnedKeys, events,
                    eventsTotal, nextEventId, clock, windows, fnIn, fnOut,
                    redisReady >>

\* the calls of the route-level middleware before the await that may throw
RouteSteps ==
    << "service", "resolveClientKey", "isAllowlisted", "resolve", "consume" >>

\* the route-level middleware when its step number n throws
RouteMwThrow(r, n) ==
    /\ reqs[r].pc = "route"
    /\ LET req == reqs[r]
           clientKey == ResolveClientKey(req, config.cloudflare)
       IN
       /\ n > 1 => enabled
       /\ n > 2 => clientKey.kind # "ip"
       /\ n > 3 => ~IsAllowlisted(clientKey, config)
       /\ reqs' = [reqs EXCEPT ![r] = Catch(req, "done")]
    /\ UNCHANGED << enabled, strategy, config, store, warnedKeys, events,
                    eventsTotal, nextEventId, clock, arrived, windows, fnIn,
                    fnOut, redisReady >>

\* the calls of a middleware after the await that may throw
ResumeSteps == << "set", "shouldWarn", "recordEvent" >>

\* the part of a middleware after the await when its step number n throws:
\* ctx.set at the first header, service.shouldWarn before it touches
\* warnedKeys, or service.recordEvent before it stores the event.  What ran
\* before the throw stays: the headers, the warnedKeys entry, status 429 and
\* the body of a rejection.
ResumeThrow(r, mw, to, n) ==
    LET req == reqs[r]
        p == req.pending
        m == Len(req.out)
        sw == ShouldWarn(config, warnedKeys, p.key, p.consumedPoints,
                         p.limit, p.intervalMs, clock)
        hdr == IF p.allowed
               THEN [req.headers EXCEPT
                        !.limit = p.limit,
                        !.remaining = p.remainingPoints,
                        !.reset = ResetSeconds(clock, p.msBeforeNext)]
               ELSE [limit |-> p.limit, remaining |-> 0,
                     reset |-> ResetSeconds(clock, p.msBeforeNext),
                     retryAfter |-> RetryAfterSeconds(p.msBeforeNext)]
        ran == IF p.allowed
               THEN [req EXCEPT !.headers = IF n > 1 THEN hdr ELSE @,
                                !.out[m].answered = TRUE,
                                !.out[m].headers = IF n > 1 THEN hdr ELSE @]
               ELSE [req EXCEPT !.status = 429, !.body = TOO_MANY_REQUESTS_BODY,
                                !.headers = IF n > 1 THEN hdr ELSE @,
                                !.out[m].answered = TRUE,
                                !.out[m].headers = IF n > 1 THEN hdr ELSE @]
    IN
    /\ p.hasRes
    /\ n = 2 => p.allowed
    /\ (n = 3 /\ p.allowed) => sw.warn
    /\ warnedKeys' = IF n = 3 /\ p.allowed THEN sw.map ELSE warnedKeys
    /\ reqs' = [reqs EXCEPT ![r] = Catch(ran, to)]
    /\ UNCHANGED << events, eventsTotal, nextEventId >>

\* globalRateLimit(ctx, next) after the await, a step throwing
GlobalResumeThrow(r, n) ==
    /\ reqs[r].pc = "globalWait"
    /\ ResumeThrow(r, "global", Downstream(reqs[r]), n)
    /\ UNCHANGED << enabled, strategy, config, store, clock, arrived, windows,
                    fnIn, fnOut, redisReady >>

\* the route-level middleware after the await, a step throwing
RouteResumeThrow(r, n) ==
    /\ reqs[r].pc = "routeWait"
    /\ ResumeThrow(r, "route", "done", n)
    /\ UNCHANGED << enabled, strategy, config, store, clock, arrived, windows,
                    fnIn, fnOut, redisReady >>

\* the handler has run or the 429 has been written: the response is sent and
\* the context is dropped
Respond(r) ==
    /\ reqs[r].pc = "done"
    /\ reqs' = [reqs EXCEPT ![r] = IdleReq]
    /\ UNCHANGED << enabled, strategy, config, store, warnedKeys, events,
                    eventsTotal, nextEventId, clock, arrived, windows, fnIn, fnOut, redisReady >>

\* ----------------------------------------------------------- state machine
Init ==
    /\ enabled = FALSE
    /\ strategy = "none"
    /\ config = NoConfig
    /\ store = [l \in StorageIds |-> [k \in AllKeys |-> NoRecord]]
    /\ warnedKeys = <<>>
    /\ events = <<>>
    /\ eventsTotal = 0
    /\ nextEventId = 1
    /\ clock = 0
    /\ reqs = [r \in Slots |-> IdleReq]
    /\ arrived = 0
    /\ windows = [l \in LimiterIds |-> [k \in AllKeys |-> NoWindow]]
    /\ fnIn = [fn |-> NoVal]
    /\ fnOut = [fn |-> NoVal]
    /\ redisReady = FALSE

\* service.initialize(pluginConfig), memory strategy: the default limiter and
\* one limiter per rule are built with empty storages, the matchers compiled
Initialize(cfg) ==
    /\ config = NoConfig
    /\ config' = cfg
    /\ store' = [l \in StorageIds |-> [k \in AllKeys |-> NoRecord]]
    /\ strategy' = "memory"
    /\ enabled' = TRUE
    /\ UNCHANGED << warnedKeys, events, eventsTotal, nextEventId, clock, reqs,
                    arrived, windows, fnIn, fnOut, redisReady >>

\* time passes; the timers of MemoryStorage delete the records that expired
Tick ==
    /\ clock < MaxTick * TickMs
    /\ clock' = clock + TickMs
    /\ store' = [l \in StorageIds |-> [k \in AllKeys |->
          IF Live(store[l][k]) /\ store[l][k].expiresAt <= clock'
          THEN NoRecord ELSE store[l][k]]]
    /\ windows' = [l \in LimiterIds |-> [k \in AllKeys |->
          IF config # NoConfig
             /\ InWindow(windows[l][k], LimiterIntervalMs(config, l), clock')
          THEN windows[l][k] ELSE NoWindow]]
    /\ UNCHANGED << enabled, strategy, config, warnedKeys, events, eventsTotal,
                    nextEventId, reqs, arrived, fnIn, fnOut, redisReady >>

Next ==
    \/ \E cfg \in Configs : Initialize(cfg)
    \/ \E r \in Slots, q \in Requests : GlobalMw(r, q.path, q.ip, q.auth)
    \/ \E r \in Slots : GlobalResume(r)
    \/ \E r \in Slots : RouteMw(r)
    \/ \E r \in Slots : RouteResume(r)
    \/ \E r \in Slots : Respond(r)
    \/ Tick

Spec == Init /\ [][Next]_vars

\* ------------------------------------------------ Redis strategy, outages
\* validated configurations with redis.url set, burst mode off or on
RedisConfig(limit, burst) ==
    [PluginConfig(limit, 0) EXCEPT
        !.redis = TRUE,
        !.burst = [enabled |-> burst, points |-> IF burst THEN 1 ELSE 0,
                   duration |-> "1s"]]

RedisConfigs == { RedisConfig(l, b) : l \in 1..MaxLimit, b \in BOOLEAN }

\* service.initialize(pluginConfig), redis.url or redis.host set: when
\* redisClient.connect() resolves, the shared insurance limiter, the Redis
\* limiters and their burst limiters are built; when it rejects the error is
\* logged and the plugin stays disabled
InitializeRedis(cfg, connected) ==
    /\ config = NoConfig
    /\ config' = cfg
    /\ IF connected
       THEN /\ store' = [l \in StorageIds |-> [k \in AllKeys |-> NoRecord]]
            /\ strategy' = "redis"
            /\ enabled' = TRUE
            /\ redisReady' = TRUE
       ELSE /\ enabled' = FALSE
            /\ UNCHANGED << store, strategy, redisReady >>
    /\ UNCHANGED << warnedKeys, events, eventsTotal, nextEventId, clock, reqs,
                    arrived, windows, fnIn, fnOut >>

\* the Redis server stops answering and stays away for the rest of the run;
\* what it holds stays.  The observer counts anew from here.
RedisDown ==
    /\ strategy = "redis"
    /\ redisReady
    /\ redisReady' = FALSE
    /\ windows' = [l \in LimiterIds |-> [k \in AllKeys |-> NoWindow]]
    /\ UNCHANGED << enabled, strategy, config, store, warnedKeys, events,
                    eventsTotal, nextEventId, clock, reqs, arrived, fnIn, fnOut >>

\* the traffic of the Redis runs: one peer on a path of the default quota, on
\* a path of the first rule and on a path of the second rule, and a user
RedisRequests ==
    { [path |-> p, ip |-> IpOther, auth |-> Anonymous] :
          p \in {PathArt, PathAuthIn, PathArtIn} }
    \cup { [path |-> PathArt, ip |-> IpOther, auth |-> User(99)] }

NextRedis ==
    \/ \E cfg \in RedisConfigs, connected \in BOOLEAN : InitializeRedis(cfg, connected)
    \/ RedisDown
    \/ \E r \in Slots, q \in RedisRequests : GlobalMw(r, q.path, q.ip, q.auth)
    \/ \E r \in Slots : GlobalResume(r)
    \/ \E r \in Slots : RouteMw(r)
    \/ \E r \in Slots : RouteResume(r)
    \/ \E r \in Slots : Respond(r)
    \/ Tick

SpecRedis == Init /\ [][NextRedis]_vars

\* --------------------------------------------------- steps that throw
\* the traffic of the runs with faults: the collection anonymously and as a
\* user, the excluded health check, and a path outside the content API
FaultRequests ==
    { [path |-> PathArt, ip |-> IpOther, auth |-> Anonymous],
      [path |-> PathArt, ip |-> IpOther, auth |-> User(99)],
      [path |-> PathArt, ip |-> IpListed, auth |-> ApiToken(42)],
      [path |-> PathHc, ip |-> IpOther, auth |-> Anonymous],
      [path |-> PathAdmin, ip |-> IpOther, auth |-> Anonymous] }

NextFault ==
    \/ \E cfg \in Configs : Initialize(cfg)
    \/ \E r \in Slots, q \in FaultRequests : GlobalMw(r, q.path, q.ip, q.auth)
    \/ \E r \in Slots, q \in FaultRequests, n \in 1..Len(GlobalSteps) :
          GlobalMwThrow(r, q.path, q.ip, q.auth, n)
    \/ \E r \in Slots : GlobalResume(r)
    \/ \E r \in Slots, n \in 1..Len(ResumeSteps) : GlobalResumeThrow(r, n)
    \/ \E r \in Slots : RouteMw(r)
    \/ \E r \in Slots, n \in 1..Len(RouteSteps) : RouteMwThrow(r, n)
    \/ \E r \in Slots : RouteResume(r)
    \/ \E r \in Slots, n \in 1..Len(ResumeSteps) : RouteResumeThrow(r, n)
    \/ \E r \in Slots : Respond(r)
    \/ Tick

SpecFault == Init /\ [][NextFault]_vars

\* ------------------------------------------------- shouldWarn on its own
\* the identity keys of the shouldWarn runs, by number
WarnKey(i) == Key("ip", i)

\* the key whose warnings are followed, a second key, and a key that never
\* warned before
WarnKeys == { WarnKey(1), WarnKey(2), WarnKey(MAX_WARNED_KEYS + 1) }

\* warnedKeys after MAX_WARNED_KEYS keys warned at time 0, the first of them
\* with the longer window
FullMap ==
    SubSeq([ i \in 1..MAX_WARNED_KEYS |->
               [key |-> WarnKey(i), expiry |-> IF i = 1 THEN 2 * TickMs ELSE TickMs] ],
           1, MAX_WARNED_KEYS)

NoWarning == [at |-> -1, window |-> 0]

\* thresholdWarning 0.8, thresholdWarning 0, and no configuration yet
WarnConfigs ==
    { PluginConfig(1, 0),
      [PluginConfig(1, 0) EXCEPT !.thresholdWarning = [num |-> 0, den |-> 1]],
      NoConfig }

\* the service with an empty warnedKeys under each configuration, or with
\* warnedKeys at its cap; fnOut keeps what an observer noted: the calls made,
\* per key the time and the window of its last warning, and the keys whose
\* entry was evicted since
InitWarn ==
    /\ enabled = FALSE
    /\ strategy = "none"
    /\ store = [l \in StorageIds |-> [k \in AllKeys |-> NoRecord]]
    /\ events = <<>>
    /\ eventsTotal = 0
    /\ nextEventId = 1
    /\ clock = 0
    /\ reqs = [r \in Slots |-> IdleReq]
    /\ arrived = 0
    /\ windows = [l \in LimiterIds |-> [k \in AllKeys |-> NoWindow]]
    /\ redisReady = FALSE
    /\ fnIn = [fn |-> NoVal]
    /\ \/ /\ config \in WarnConfigs
          /\ warnedKeys = <<>>
          /\ fnOut = [fn |-> NoVal, result |-> FALSE, calls |-> 0, evicted |-> {},
                      last |-> [k \in WarnKeys |-> NoWarning]]
       \/ /\ config = PluginConfig(1, 0)
          /\ warnedKeys = FullMap
          /\ fnOut = [fn |-> NoVal, result |-> FALSE, calls |-> 0, evicted |-> {},
                      last |-> [k \in WarnKeys |->
                                  IF k = WarnKey(1) THEN [at |-> 0, window |-> 2 * TickMs]
                                  ELSE IF k = WarnKey(2) THEN [at |-> 0, window |-> TickMs]
                                  ELSE NoWarning]]

\* the keys whose entry a call for key removes to make room: the first entry
\* of the map, when it is gone afterwards and is not the entry of key
EvictedBy(map, after, key) ==
    IF Len(map) > 0 /\ map[1].key # key /\ (Len(after) = 0 \/ after[1] # map[1])
    THEN {map[1].key} ELSE {}

\* service.shouldWarn(key, consumedPoints, limit, windowDurationMs)
ShouldWarnCall(key, consumedPoints, limit, windowDurationMs) ==
    LET sw == ShouldWarn(config, warnedKeys, key, consumedPoints, limit,
                         windowDurationMs, clock) IN
    /\ fnOut.calls < MaxCalls
    /\ warnedKeys' = sw.map
    /\ fnIn' = [fn |-> "shouldWarn", key |-> key,
                consumedPoints |-> consumedPoints, limit |-> limit,
                windowDurationMs |-> windowDurationMs]
    /\ fnOut' = [fn |-> "shouldWarn", result |-> sw.warn,
                 calls |-> fnOut.calls + 1,
                 evicted |-> (fnOut.evicted \ (IF sw.warn THEN {key} ELSE {}))
                                \cup EvictedBy(warnedKeys, sw.map, key),
                 last |-> IF sw.warn
                          THEN [fnOut.last EXCEPT
                                  ![key] = [at |-> clock, window |-> windowDurationMs]]
                          ELSE fnOut.last]
    /\ UNCHANGED << enabled, strategy, config, store, events, eventsTotal,
                    nextEventId, clock, reqs, arrived, windows, redisReady >>

NextWarn ==
    \/ \E k \in WarnKeys, c \in WarnConsumed, w \in {TickMs, 2 * TickMs} :
          ShouldWarnCall(k, c, WarnLimit, w)
    \/ Tick

SpecWarn == InitWarn /\ [][NextWarn]_vars

\* ------------------------------------------- the event buffer on its own
Reverse(seq) == [i \in 1..Len(seq) |-> seq[Len(seq) - i + 1]]

\* service.getRecentEvents(): the events held, newest first, the number of
\* events recorded and the capacity
GetRecentEvents(buf, total) ==
    [events |-> Reverse(buf), total |-> total, capacity |-> EVENT_CAPACITY]

\* what the middlewares and the tests hand to recordEvent: an event without
\* id and timestamp
EventInputs ==
    { [type |-> ty, source |-> src,
       key |-> IF src = "global" THEN Key("ip", IpOther) ELSE Key("token", "42"),
       path |-> IF src = "global" THEN PathArtIn ELSE PathArt,
       consumedPoints |-> IF ty = "blocked" THEN 3 ELSE 2,
       limit |-> 2, msBeforeNext |-> TickMs] :
          ty \in {"blocked", "warning"}, src \in {"global", "route"} }

\* the i-th event of a run that recorded one event per client at time 0
EarlierInput(i) ==
    [type |-> IF i % 2 = 0 THEN "blocked" ELSE "warning", source |-> "global",
     key |-> WarnKey(i), path |-> PathArt,
     consumedPoints |-> IF i % 2 = 0 THEN 3 ELSE 2,
     limit |-> 2, msBeforeNext |-> TickMs]

\* the buffer after the first n events of that run, n below the capacity:
\* each event as recordEvent stores it, in the order of the calls
EarlierEvents(n) ==
    SubSeq([i \in 1..n |-> Head(RecordEvent(<<>>, i, EarlierInput(i).type,
                                            EarlierInput(i).source,
                                            EarlierInput(i), 0))],
           1, n)

\* what an observer notes of a recordEvent call: the event handed over, the
\* id and the timestamp it was given
Noted(e, id, t) == [input |-> e, id |-> id, timestamp |-> t]

\* the service with nothing recorded, or one event short of a full buffer;
\* fnOut keeps what an observer noted: the calls made here, the clears, the
\* events recorded since the last clear, the highest id ever given
InitEvents ==
    /\ enabled = FALSE
    /\ strategy = "none"
    /\ config = NoConfig
    /\ store = [l \in StorageIds |-> [k \in AllKeys |-> NoRecord]]
    /\ warnedKeys = <<>>
    /\ clock = 0
    /\ reqs = [r \in Slots |-> IdleReq]
    /\ arrived = 0
    /\ windows = [l \in LimiterIds |-> [k \in AllKeys |-> NoWindow]]
    /\ redisReady = FALSE
    /\ fnIn = [fn |-> NoVal]
    /\ \E n \in {0, EVENT_CAPACITY - 1} :
          /\ events = EarlierEvents(n)
          /\ eventsTotal = n
          /\ nextEventId = n + 1
          /\ fnOut = [fn |-> NoVal, calls |-> 0, clears |-> 0, issued |-> n,
                      design |-> NoVal,
                      history |-> SubSeq([i \in 1..n |-> Noted(EarlierInput(i), i, 0)],
                                         1, n)]

\* a faulty variant of RecordEventCall: the id counter is not advanced
RecordEventCallSameId(e) ==
    /\ fnOut.calls < MaxRecords
    /\ events' = RecordEvent(events, nextEventId, e.type, e.source, e, clock)
    /\ eventsTotal' = eventsTotal + 1
    /\ nextEventId' = nextEventId
    /\ fnIn' = [fn |-> "recordEvent", event |-> e]
    /\ fnOut' = [fnOut EXCEPT !.fn = "recordEvent", !.calls = @ + 1,
                              !.issued = Max(@, nextEventId),
                              !.history = Append(@, Noted(e, nextEventId, clock))]
    /\ UNCHANGED << enabled, strategy, config, store, warnedKeys, clock, reqs,
                    arrived, windows, redisReady >>

\* service.recordEvent(event): a synchronous call, so that concurrent
\* requests make their calls one after the other in some order
RecordEventCall(e) ==
    /\ fnOut.calls < MaxRecords
    /\ events' = RecordEvent(events, nextEventId, e.type, e.source, e, clock)
    /\ eventsTotal' = eventsTotal + 1
    /\ nextEventId' = nextEventId + 1
    /\ fnIn' = [fn |-> "recordEvent", event |-> e]
    /\ fnOut' = [fnOut EXCEPT !.fn = "recordEvent", !.calls = @ + 1,
                              !.issued = Max(@, nextEventId),
                              !.history = Append(@, Noted(e, nextEventId, clock))]
    /\ UNCHANGED << enabled, strategy, config, store, warnedKeys, clock, reqs,
                    arrived, windows, redisReady >>

\* a faulty variant of ClearEvents: the number of events recorded is kept
ClearEventsKeepTotal(resetId) ==
    /\ events' = <<>>
    /\ eventsTotal' = eventsTotal
    /\ nextEventId' = IF resetId THEN 1 ELSE nextEventId

\* service.clearEvents(): the buffer is emptied and the number of events
\* recorded starts again at 0; the id counter starts again at 1 or goes on,
\* as the design chooses
ClearEvents(resetId) ==
    /\ events' = <<>>
    /\ eventsTotal' = 0
    /\ nextEventId' = IF resetId THEN 1 ELSE nextEventId

\* what clearEvents does to the id counter, as the design chose
DesignOf(resetId) == IF resetId THEN "restart" ELSE "continue"

\* the controller's clearEvents, as the observer of the event runs sees it;
\* the design of clearEvents is the same at every call of a run
ClearEventsCall(resetId) ==
    /\ fnOut.clears < MaxClears
    /\ fnOut.calls > 0
    /\ fnOut.design \in {NoVal, DesignOf(resetId)}
    /\ ClearEvents(resetId)
    /\ fnIn' = [fn |-> "clearEvents"]
    /\ fnOut' = [fnOut EXCEPT !.fn = "clearEvents", !.clears = @ + 1,
                              !.history = <<>>,
                              !.design = DesignOf(resetId)]
    /\ UNCHANGED << enabled, strategy, config, store, warnedKeys, clock, reqs,
                    arrived, windows, redisReady >>

NextEvents ==
    \/ \E e \in EventInputs : RecordEventCall(e)
    \/ \E resetId \in BOOLEAN : ClearEventsCall(resetId)
    \/ Tick

SpecEvents == InitEvents /\ [][NextEvents]_vars

\* ------------------------------------------- the admin clears the events
\* the clears made so far, as an observer counts them in fnOut
ClearsDone == IF fnOut.fn = "clearEvents" THEN fnOut.clears ELSE 0

\* DELETE /events of the admin API: controller.clearEvents.  The path is not
\* under /api/, so that globalRateLimit passes the request on untouched
ClearEventsRequest(resetId) ==
    /\ ClearsDone < MaxClears
    /\ ClearEvents(resetId)
    /\ fnIn' = [fn |-> "clearEvents"]
    /\ fnOut' = [fn |-> "clearEvents", clears |-> ClearsDone + 1]
    /\ UNCHANGED << enabled, strategy, config, store, warnedKeys, clock, reqs,
                    arrived, windows, redisReady >>

NextAdmin ==
    \/ \E cfg \in Configs : Initialize(cfg)
    \/ \E r \in Slots, q \in FaultRequests : GlobalMw(r, q.path, q.ip, q.auth)
    \/ \E r \in Slots : GlobalResume(r)
    \/ \E r \in Slots : RouteMw(r)
    \/ \E r \in Slots : RouteResume(r)
    \/ \E r \in Slots : Respond(r)
    \/ \E resetId \in BOOLEAN : ClearEventsRequest(resetId)
    \/ Tick

SpecAdmin == Init /\ [][NextAdmin]_vars

\* ------------------------------------------- initialization that fails
\* the steps of service.initialize that may throw, in order: ms() on the
\* intervals of the defaults, the construction of the limiters with
\* picomatch(rule.path) for each rule, picomatch() on the exclude patterns
InitSteps == << "ms", "limiters", "exclude" >>

\* a faulty variant of InitializeThrow: enabled is set before the exclude
\* matchers are compiled and the catch leaves it as it is
InitializeThrowEnabledEarly(cfg, n) ==
    /\ config = NoConfig
    /\ config' = cfg
    /\ redisReady' = (cfg.redis /\ n > 1)
    /\ IF n > 2
       THEN /\ store' = [l \in StorageIds |-> [k \in AllKeys |-> NoRecord]]
            /\ strategy' = IF cfg.redis THEN "redis" ELSE "memory"
       ELSE UNCHANGED << store, strategy >>
    /\ enabled' = (n > 2)
    /\ fnIn' = [fn |-> "initialize", failed |-> n]
    /\ UNCHANGED << warnedKeys, events, eventsTotal, nextEventId, clock, reqs,
                    arrived, windows, fnOut >>

\* service.initialize(pluginConfig) when its step number n throws: config is
\* assigned first; with Redis configured the client is connected before the
\* limiters are built; strategy is assigned once the limiters are built; the
\* catch logs the error and assigns enabled = false
InitializeThrow(cfg, n) ==
    /\ config = NoConfig
    /\ config' = cfg
    /\ redisReady' = (cfg.redis /\ n > 1)
    /\ IF n > 2
       THEN /\ store' = [l \in StorageIds |-> [k \in AllKeys |-> NoRecord]]
            /\ strategy' = IF cfg.redis THEN "redis" ELSE "memory"
       ELSE UNCHANGED << store, strategy >>
    /\ enabled' = FALSE
    /\ fnIn' = [fn |-> "initialize", failed |-> n]
    /\ UNCHANGED << warnedKeys, events, eventsTotal, nextEventId, clock, reqs,
                    arrived, windows, fnOut >>

\* the service initialized with any configuration, successfully or not, and
\* the traffic of the runs with faults
NextInit ==
    \/ \E cfg \in Configs : Initialize(cfg)
    \/ \E cfg \in RedisConfigs, connected \in BOOLEAN :
          InitializeRedis(cfg, connected)
    \/ \E cfg \in Configs \cup RedisConfigs, n \in 1..Len(InitSteps) :
          InitializeThrow(cfg, n)
    \/ \E r \in Slots, q \in FaultRequests : GlobalMw(r, q.path, q.ip, q.auth)
    \/ \E r \in Slots : GlobalResume(r)
    \/ \E r \in Slots : RouteMw(r)
    \/ \E r \in Slots : RouteResume(r)
    \/ \E r \in Slots : Respond(r)
    \/ Tick

SpecInit == Init /\ [][NextInit]_vars

\* ------------------------------------------- the in-memory block of Redis
\* validated configurations with inMemoryBlock enabled, the threshold left
\* at 0 or set, with redis.url set or not
BlockConfig(limit, threshold, redis) ==
    [PluginConfig(limit, 0) EXCEPT
        !.redis = redis,
        !.inMemoryBlock = [enabled |-> TRUE, consumedThreshold |-> threshold,
                           duration |-> "1s"]]

BlockThresholds == {0, 3}

BlockConfigs ==
    { BlockConfig(l, th, TRUE) : l \in 1..MaxLimit, th \in BlockThresholds }

MemoryBlockConfigs == { BlockConfig(1, th, FALSE) : th \in BlockThresholds }

\* the traffic of these runs: one peer on a path of the default quota and on
\* a path of the first rule
BlockRequests ==
    { [path |-> p, ip |-> IpOther, auth |-> Anonymous] :
          p \in {PathArt, PathAuthIn} }

NextBlock ==
    \/ \E cfg \in BlockConfigs : InitializeRedis(cfg, TRUE)
    \/ \E cfg \in MemoryBlockConfigs : Initialize(cfg)
    \/ \E r \in Slots, q \in BlockRequests : GlobalMw(r, q.path, q.ip, q.auth)
    \/ \E r \in Slots : GlobalResume(r)
    \/ \E r \in Slots : Respond(r)
    \/ Tick

SpecBlock == Init /\ [][NextBlock]_vars

\* ------------------------------------------------------------ the validator
\* a value of the user's configuration file: a number (an integer v, v + 0.5,
\* or NaN), a string of characters s, or undefined
Whole(n) == [t |-> "int", v |-> n, s |-> <<>>]
Half(n) == [t |-> "half", v |-> n, s |-> <<>>]
NaN == [t |-> "nan", v |-> 0, s |-> <<>>]
Str(chars) == [t |-> "string", v |-> 0, s |-> chars]
Undefined == [t |-> "undefined", v |-> 0, s |-> <<>>]

TypeofNumber(x) == x.t \in {"int", "half", "nan"}
NumberIsInteger(x) == x.t = "int"

\* x < n and x > n for a number x and an integer n; false for NaN
Lt(x, n) == x.t \in {"int", "half"} /\ x.v < n
Gt(x, n) == (x.t = "int" /\ x.v > n) \/ (x.t = "half" /\ x.v >= n)

Digits == {"0", "1", "2", "3", "4", "5", "6", "7", "8", "9"}

DigitValue(c) ==
    CASE c = "0" -> 0 [] c = "1" -> 1 [] c = "2" -> 2 [] c = "3" -> 3
      [] c = "4" -> 4 [] c = "5" -> 5 [] c = "6" -> 6 [] c = "7" -> 7
      [] c = "8" -> 8 [] OTHER -> 9

\* the number of leading digits of a string
RECURSIVE LeadingDigits(_)
LeadingDigits(chars) ==
    IF chars # <<>> /\ Head(chars) \in Digits
    THEN 1 + LeadingDigits(Tail(chars))
    ELSE 0

\* the value of a string of digits
RECURSIVE Decimal(_)
Decimal(chars) ==
    IF chars = <<>> THEN 0
    ELSE 10 * Decimal(SubSeq(chars, 1, Len(chars) - 1))
         + DigitValue(chars[Len(chars)])

\* the milliseconds of a unit of the `ms` package, 0 for no unit of it
UnitMs(unit) ==
    CASE unit = <<>> -> 1
      [] unit = <<"m", "s">> -> 1
      [] unit = <<"s">> -> 1000
      [] unit = <<"m">> -> 60000
      [] unit = <<"h">> -> 3600000
      [] OTHER -> 0

\* ms(value) for a string: an optional sign, digits and one unit; anything
\* else is undefined
MsParse(chars) ==
    LET neg == chars # <<>> /\ Head(chars) = "-"
        body == IF neg THEN Tail(chars) ELSE chars
        n == LeadingDigits(body)
        unit == SubSeq(body, n + 1, Len(body))
    IN IF n = 0 \/ UnitMs(unit) = 0
       THEN [defined |-> FALSE, ms |-> 0]
       ELSE [defined |-> TRUE,
             ms |-> (IF neg THEN -1 ELSE 1) * Decimal(SubSeq(body, 1, n)) * UnitMs(unit)]

\* validateMsInterval(value, fieldName) returns
ValidMsInterval(x) ==
    /\ x.t = "string"
    /\ MsParse(x.s).defined
    /\ MsParse(x.s).ms > 0

MAX_BLOCK_DURATION == 86400

\* the checks of the validator on config.defaults, in order: the first that
\* fails, or none
DefaultsError(d) ==
    IF ~NumberIsInteger(d.limit) \/ ~Gt(d.limit, 0) THEN "defaults.limit"
    ELSE IF ~ValidMsInterval(d.interval) THEN "defaults.interval"
    ELSE IF ~TypeofNumber(d.blockDuration) \/ Lt(d.blockDuration, 0)
    THEN "defaults.blockDuration"
    ELSE IF Gt(d.blockDuration, MAX_BLOCK_DURATION) THEN "defaults.blockDuration"
    ELSE NoVal

\* the checks of the validator on one rule
RuleError(rule) ==
    IF rule.path.t # "string" \/ rule.path.s = <<>> THEN "rules.path"
    ELSE IF ~NumberIsInteger(rule.limit) \/ ~Gt(rule.limit, 0) THEN "rules.limit"
    ELSE IF ~ValidMsInterval(rule.interval) THEN "rules.interval"
    ELSE NoVal

\* config.rules.forEach(...): the error of the first rule that has one
RECURSIVE RulesError(_)
RulesError(rules) ==
    IF rules = <<>> THEN NoVal
    ELSE IF RuleError(Head(rules)) # NoVal THEN RuleError(Head(rules))
    ELSE RulesError(Tail(rules))

\* coerceToStringArray(arr, fieldName): String(v) of an integer
RECURSIVE NumChars(_)
NumChars(n) ==
    IF n < 10 THEN << CHOOSE c \in Digits : DigitValue(c) = n >>
    ELSE NumChars(n \div 10) \o << CHOOSE c \in Digits : DigitValue(c) = n % 10 >>

CoerceToStringArray(arr) ==
    [i \in 1..Len(arr) |->
        IF arr[i].t = "string" THEN arr[i] ELSE Str(NumChars(arr[i].v))]

\* the check of config.thresholdWarning: 0, or above 0 and at most 1
ThresholdError(x) ==
    IF ~TypeofNumber(x) THEN "thresholdWarning"
    ELSE IF ~(x.t = "int" /\ x.v = 0) /\ (~Gt(x, 0) \/ Gt(x, 1))
    THEN "thresholdWarning"
    ELSE NoVal

\* validator(config), the checks on the quotas, the allowlist and the
\* warning threshold (the other options are valid): whether it returned,
\* the check that threw, and the config object as it is left
Validator(cfg) ==
    IF DefaultsError(cfg.defaults) # NoVal
    THEN [ok |-> FALSE, error |-> DefaultsError(cfg.defaults), config |-> cfg]
    ELSE IF RulesError(cfg.rules) # NoVal
    THEN [ok |-> FALSE, error |-> RulesError(cfg.rules), config |-> cfg]
    ELSE IF ThresholdError(cfg.thresholdWarning) # NoVal
    THEN [ok |-> FALSE, error |-> "thresholdWarning",
          config |-> [cfg EXCEPT !.allowlist.tokens = CoerceToStringArray(@)]]
    ELSE [ok |-> TRUE, error |-> NoVal,
          config |-> [cfg EXCEPT !.allowlist.tokens = CoerceToStringArray(@)]]

\* the values a configuration file may give the options of a quota
RawLimits == { Whole(0), Whole(1), Half(1), Str(<<"1">>) }

RawIntervals ==
    { Str(<<"1", "s">>), Str(<<"5", "0", "0", "m", "s">>),
      Str(<<"1", "h", "3", "0", "m">>), Str(<<"0", "s">>),
      Str(<<"-", "1", "s">>), Str(<<"x">>), Whole(60) }

RawBlockDurations ==
    { Whole(-1), Whole(0), Half(1), Whole(MAX_BLOCK_DURATION),
      Whole(MAX_BLOCK_DURATION + 1), NaN, Str(<<"1">>) }

RawDefaults ==
    { [limit |-> l, interval |-> i, blockDuration |-> b] :
         l \in RawLimits, i \in RawIntervals, b \in RawBlockDurations }

RawRules ==
    { [path |-> p, limit |-> l, interval |-> i, blockDuration |-> b] :
         p \in {Str(PatAuthAll), Str(<<>>)}, l \in RawLimits,
         i \in RawIntervals, b \in RawBlockDurations \cup {Undefined} }

ValidDefaults ==
    [limit |-> Whole(1), interval |-> Str(<<"1", "s">>), blockDuration |-> Whole(0)]

ValidRule ==
    [path |-> Str(PatAnyIn), limit |-> Whole(1), interval |-> Str(<<"1", "s">>),
     blockDuration |-> Undefined]

\* the configurations handed to the validator: any defaults with no rule or
\* a valid one, and any rule, first or second, under valid defaults or
\* defaults with a limit of 0
RawQuotas ==
    { [defaults |-> d, rules |-> rs] :
         d \in RawDefaults, rs \in { <<>>, << ValidRule >> } }
    \cup { [defaults |-> d, rules |-> rs] :
              d \in { ValidDefaults, [ValidDefaults EXCEPT !.limit = Whole(0)] },
              rs \in { << r >> : r \in RawRules }
                     \cup { << ValidRule, r >> : r \in RawRules } }

RawConfigs ==
    { [defaults |-> q.defaults, rules |-> q.rules,
       allowlist |-> [tokens |-> tk], thresholdWarning |-> th] :
         q \in RawQuotas, tk \in { << Str(<<"4", "2">>) >>, << Whole(42) >> },
         th \in { Half(0), Str(<<"x">>) } }

\* validator(config), called once on a configuration
ValidatorCall(cfg) ==
    /\ fnIn.fn = NoVal
    /\ fnIn' = [fn |-> "validator", config |-> cfg]
    /\ fnOut' = [fn |-> "validator", result |-> Validator(cfg)]
    /\ UNCHANGED engineVars

NextValidate == \E cfg \in RawConfigs : ValidatorCall(cfg)

SpecValidate == Init /\ [][NextValidate]_vars

\* ------------------------------------- the two middlewares on one request
\* the traffic of the runs on header precedence: a user on the collection,
\* which has the route-level middleware
PrecedenceRequests ==
    { [path |-> PathArt, ip |-> IpOther, auth |-> User(99)] }

\* both middlewares over Redis, with an outage and with the steps after the
\* await throwing
NextPrecedence ==
    \/ \E cfg \in RedisConfigs : InitializeRedis(cfg, TRUE)
    \/ RedisDown
    \/ \E r \in Slots, q \in PrecedenceRequests : GlobalMw(r, q.path, q.ip, q.auth)
    \/ \E r \in Slots : GlobalResume(r)
    \/ \E r \in Slots, n \in 1..Len(ResumeSteps) : GlobalResumeThrow(r, n)
    \/ \E r \in Slots : RouteMw(r)
    \/ \E r \in Slots : RouteResume(r)
    \/ \E r \in Slots, n \in 1..Len(ResumeSteps) : RouteResumeThrow(r, n)
    \/ \E r \in Slots : Respond(r)
    \/ Tick

SpecPrecedence == Init /\ [][NextPrecedence]_vars

\* ------------------------------------------- requests racing initialization
\* a faulty variant of InitializeBegin: enabled is assigned before the
\* connection is awaited
InitializeBeginEnabledEarly(cfg) ==
    /\ config = NoConfig
    /\ cfg.redis
    /\ config' = cfg
    /\ enabled' = TRUE
    /\ fnIn' = [fn |-> "connect"]
    /\ UNCHANGED << strategy, store, redisReady, warnedKeys, events, eventsTotal,
                    nextEventId, clock, reqs, arrived, windows, fnOut >>

\* service.initialize(pluginConfig) with Redis configured, up to
\* `await redisClient.connect()`: config is assigned, the client is created,
\* no limiter or matcher is built yet and enabled keeps its initial false
InitializeBegin(cfg) ==
    /\ config = NoConfig
    /\ cfg.redis
    /\ config' = cfg
    /\ fnIn' = [fn |-> "connect"]
    /\ UNCHANGED << enabled, strategy, store, redisReady, warnedKeys, events,
                    eventsTotal, nextEventId, clock, reqs, arrived, windows, fnOut >>

\* service.initialize(pluginConfig) after the await: when the connection is
\* made the limiters and the exclude matchers are built, strategy is assigned
\* and enabled = true is the last statement; when it is refused the catch
\* assigns enabled = false
InitializeConnect(connected) ==
    /\ fnIn.fn = "connect"
    /\ fnIn' = [fn |-> "initialize", failed |-> IF connected THEN 0 ELSE 2]
    /\ IF connected
       THEN /\ store' = [l \in StorageIds |-> [k \in AllKeys |-> NoRecord]]
            /\ strategy' = "redis"
            /\ enabled' = TRUE
            /\ redisReady' = TRUE
       ELSE /\ enabled' = FALSE
            /\ UNCHANGED << store, strategy, redisReady >>
    /\ UNCHANGED << config, warnedKeys, events, eventsTotal, nextEventId, clock,
                    reqs, arrived, windows, fnOut >>

\* requests arrive before, while and after the service initializes, in
\* memory at once or over Redis with the connection awaited
NextRace ==
    \/ \E cfg \in Configs : Initialize(cfg)
    \/ \E cfg \in RedisConfigs : InitializeBegin(cfg)
    \/ \E connected \in BOOLEAN : InitializeConnect(connected)
    \/ \E r \in Slots, q \in FaultRequests : GlobalMw(r, q.path, q.ip, q.auth)
    \/ \E r \in Slots : GlobalResume(r)
    \/ \E r \in Slots : RouteMw(r)
    \/ \E r \in Slots : RouteResume(r)
    \/ \E r \in Slots : Respond(r)
    \/ Tick

SpecRace == Init /\ [][NextRace]_vars

\* ------------------------------------------ headers during a Redis outage
\* validated Redis configurations whose default quota goes up to
\* MaxLimit + 1, above both rule quotas
OutageConfigs == { RedisConfig(l, FALSE) : l \in 1..(MaxLimit + 1) }

\* the traffic of these runs: one peer on a path of the first rule and on a
\* path of the default quota
OutageRequests ==
    { [path |-> p, ip |-> IpOther, auth |-> Anonymous] :
          p \in {PathAuthIn, PathArt} }

NextOutage ==
    \/ \E cfg \in OutageConfigs : InitializeRedis(cfg, TRUE)
    \/ RedisDown
    \/ \E r \in Slots, q \in OutageRequests : GlobalMw(r, q.path, q.ip, q.auth)
    \/ \E r \in Slots : GlobalResume(r)
    \/ \E r \in Slots : RouteMw(r)
    \/ \E r \in Slots : Respond(r)
    \/ Tick

SpecOutage == Init /\ [][NextOutage]_vars

\* ------------------------------------------- callers of the config getter
\* `service.config` returns Object.freeze({ ...config }): a new frozen object
\* whose properties hold the very allowlist, rules and defaults objects of
\* the engine.  A caller assigns a property of the returned object: the
\* object is frozen, nothing changes.
ConfigAssign(field) ==
    /\ config # NoConfig
    /\ fnIn.fn = NoVal
    /\ fnIn' = [fn |-> "config.assign", field |-> field]
    /\ UNCHANGED << enabled, strategy, config, store, warnedKeys, events,
                    eventsTotal, nextEventId, clock, reqs, arrived, windows,
                    fnOut, redisReady >>

\* a caller pushes an entry onto a list of the allowlist reached through the
\* returned object: service.config.allowlist[list].push(entry).  The nested
\* object is not frozen and is the engine's own.
AllowlistPush(list, entry) ==
    /\ config # NoConfig
    /\ fnOut.fn = NoVal
    /\ fnOut' = [fn |-> "allowlist.push", list |-> list, entry |-> entry]
    /\ config' = [config EXCEPT !.allowlist[list] = Append(@, entry)]
    /\ UNCHANGED << enabled, strategy, store, warnedKeys, events, eventsTotal,
                    nextEventId, clock, reqs, arrived, windows, fnIn, redisReady >>

\* the entries a caller pushes: the peer outside the allowlist, the user 99
PushedEntries ==
    { [list |-> "ips", entry |-> IpOther],
      [list |-> "users", entry |-> NumStr(99)] }

\* the traffic of these runs: the collection as a peer and as a user
GetterRequests ==
    { [path |-> PathArt, ip |-> IpOther, auth |-> Anonymous],
      [path |-> PathArt, ip |-> IpOther, auth |-> User(99)] }

NextConfig ==
    \/ \E cfg \in Configs : Initialize(cfg)
    \/ \E field \in {"allowlist", "rules", "defaults", "exclude"} : ConfigAssign(field)
    \/ \E e \in PushedEntries : AllowlistPush(e.list, e.entry)
    \/ \E r \in Slots, q \in GetterRequests : GlobalMw(r, q.path, q.ip, q.auth)
    \/ \E r \in Slots : GlobalResume(r)
    \/ \E r \in Slots : RouteMw(r)
    \/ \E r \in Slots : RouteResume(r)
    \/ \E r \in Slots : Respond(r)
    \/ Tick

SpecConfig == Init /\ [][NextConfig]_vars

\* ------------------------------------------------- windows that run out
\* validated memory configurations whose default quota has a window of one
\* second and no block duration
WindowConfigs ==
    { [PluginConfig(l, 0) EXCEPT !.defaults.interval = "1s"] : l \in 1..MaxLimit }

\* the traffic of these runs: one peer on a path of the default quota and on
\* a path of the second rule
WindowRequests ==
    { [path |-> p, ip |-> IpOther, auth |-> Anonymous] :
          p \in {PathArt, PathArtIn} }

NextWindow ==
    \/ \E cfg \in WindowConfigs : Initialize(cfg)
    \/ \E r \in Slots, q \in WindowRequests : GlobalMw(r, q.path, q.ip, q.auth)
    \/ \E r \in Slots : GlobalResume(r)
    \/ \E r \in Slots : RouteMw(r)
    \/ \E r \in Slots : Respond(r)
    \/ Tick

SpecWindow == Init /\ [][NextWindow]_vars

\* ---------------------------------------------- the functions on their own
\* the request paths of up to MaxPathLen characters over '/', 'a' and 'i'
RECURSIVE PathsOfLen(_)
PathsOfLen(n) ==
    IF n = 1 THEN { Slash }
    ELSE { Append(p, ch) : p \in PathsOfLen(n - 1), ch \in {"/", "a", "i"} }

FnPaths == UNION { PathsOfLen(n) : n \in 1..MaxPathLen }

\* client addresses as text: IPv4, IPv4-mapped IPv6, IPv6 in two spellings,
\* and text that is no address
FnIps ==
    { "10.0.0.1", "10.0.2.9", "10.0.3.9", "10.9.9.9", "::ffff:10.0.0.1",
      "::ffff:a00:209", "::1", "0:0:0:0:0:0:0:1", "2001:db8::7",
      "2001:DB8:0:0:0:0:0:7", "2001:db9::7", "bogus", "" }

\* allowlist entries: addresses, CIDR ranges of both families, a CIDR with an
\* impossible prefix length and text that is neither
FnEntries ==
    { "10.0.0.1", "::1", "2001:db8::7", "10.0.2.0/24", "10.0.2.0/23",
      "2001:db8::/32", "::1/128", "10.0.0.0/99", "bogus" }

RECURSIVE ListsOfLen(_)
ListsOfLen(n) ==
    IF n = 0 THEN { << >> }
    ELSE { Append(l, e) : l \in ListsOfLen(n - 1), e \in FnEntries }

FnLists == UNION { ListsOfLen(n) : n \in 0..MaxEntries }

FnKeys ==
    { Key("ip", ip) : ip \in FnIps }
    \cup { Key("token", "42"), Key("token", "43"), Key("token", "7"),
           Key("user", "7"), Key("user", "99"), Key("user", "42"),
           Key("other", "42"), Key("other", "7") }

\* each behaviour is one call.  The path normalization of the middlewares,
\* applied once and twice
NormalizeCall(p) ==
    /\ fnIn.fn = NoVal
    /\ fnIn' = [fn |-> "normalize", path |-> p]
    /\ fnOut' = [fn |-> "normalize", once |-> NormalizePath(p),
                 twice |-> NormalizePath(NormalizePath(p))]
    /\ UNCHANGED engineVars

\* isIpInAllowlist(clientIp, entries)
IsIpInAllowlistCall(ip, entries) ==
    /\ fnIn.fn = NoVal
    /\ fnIn' = [fn |-> "isIpInAllowlist", ip |-> ip, entries |-> entries]
    /\ fnOut' = [fn |-> "isIpInAllowlist", result |-> IsIpInAllowlist(ip, entries)]
    /\ UNCHANGED engineVars

\* service.isAllowlisted(key, cfg) with cfg.allowlist.ips = entries
IsAllowlistedCall(key, entries) ==
    /\ fnIn.fn = NoVal
    /\ fnIn' = [fn |-> "isAllowlisted", key |-> key, entries |-> entries]
    /\ fnOut' = [fn |-> "isAllowlisted",
                 result |-> IsAllowlisted(key,
                     [PluginConfig(1, 0) EXCEPT !.allowlist.ips = entries])]
    /\ UNCHANGED engineVars

\* the contexts resolveClientKey is given: peer address, CF-Connecting-IP
\* header, ctx.state.auth of each strategy with and without ids
FnCtxs ==
    { [ip |-> IpOther, cfIp |-> cf,
       auth |-> [strategy |-> st, credId |-> c, userId |-> u]] :
          cf \in {"", "1.2.3.4"},
          st \in {NoVal, "api-token", "users-permissions", "admin"},
          c \in {0, 42}, u \in {0, 99} }

\* resolveClientKey(ctx, cloudflare); the function assigns nothing in ctx
ResolveClientKeyCall(ctx, cloudflare) ==
    /\ fnIn.fn = NoVal
    /\ fnIn' = [fn |-> "resolveClientKey", ctx |-> ctx, cloudflare |-> cloudflare]
    /\ fnOut' = [fn |-> "resolveClientKey", ctx |-> ctx,
                 result |-> ResolveClientKey(ctx, cloudflare)]
    /\ UNCHANGED engineVars

NextFn ==
    \/ \E ctx \in FnCtxs, cf \in BOOLEAN : ResolveClientKeyCall(ctx, cf)
    \/ \E p \in FnPaths : NormalizeCall(p)
    \/ \E ip \in FnIps, entries \in FnLists : IsIpInAllowlistCall(ip, entries)
    \/ \E key \in FnKeys, entries \in FnLists : IsAllowlistedCall(key, entries)

SpecFn == Init /\ [][NextFn]_vars

\* ------------------------------------------------------------------ claims
\* every consumption a request in flight has made, with its slot
Consumptions ==
    { << r, i >> \in Slots \X (1..2) : i <= Len(reqs[r].out) }

Entry(c) == reqs[c[1]].out[c[2]]

C2_RemainingCountdown ==
    config # NoConfig =>
        \A c \in Consumptions :
            LET o == Entry(c)
                N == LimiterPoints(config, o.lim)
            IN /\ (o.ord = N + 1) => ~o.allowed
               /\ o.allowed => (o.adm >= 1 /\ o.adm <= N)
               /\ (o.answered /\ o.allowed) =>
                     /\ o.headers.limit = N
                     /\ o.headers.remaining = N - o.adm
                     /\ o.headers.retryAfter = -1
               /\ (o.answered /\ ~o.allowed) =>
                     /\ o.headers.limit = N
                     /\ o.headers.remaining = 0
                     /\ o.headers.retryAfter > 0

\* C2 witness: the second admission under a limit of 2 has been answered with
\* Remaining 0, which its response still carries
C2_Witness ==
    \E c \in Consumptions :
        /\ Entry(c).answered
        /\ Entry(c).allowed
        /\ Entry(c).adm = 2
        /\ Entry(c).headers.limit = 2
        /\ reqs[c[1]].headers.remaining = 0

\* the slot whose request consumes in this step
Consuming(r) == Len(reqs'[r].out) = Len(reqs[r].out) + 1

\* C3: bucket independence. A consumption for a key under a quota leaves the
\* counter of every other key under that quota, and of every key under
\* every other quota, as it was.
C3_BucketIndependence ==
    [][ \A r \in Slots :
          Consuming(r) =>
             LET o == Last(reqs'[r].out) IN
             \A l \in LimiterIds, k \in AllKeys :
                 (<< l, k >> # << o.lim, o.key >>) =>
                     /\ store'[l][k] = store[l][k]
                     /\ windows'[l][k] = windows[l][k] ]_vars

\* C3 witness: a key is admitted with a fresh count under one quota while it
\* is over the limit of another
C3_Witness ==
    /\ config # NoConfig
    /\ \E c \in Consumptions :
          /\ Entry(c).allowed
          /\ Entry(c).adm = 1
          /\ \E l \in LimiterIds \ {Entry(c).lim} :
                store[l][Entry(c).key].value > LimiterPoints(config, l)

\* the lowest-index rule whose pattern matches the path, 0 when none does
LowestMatch(cfg, path) ==
    LET hits == { i \in 1..Len(cfg.rules) : GlobMatch(cfg.rules[i].path, path) } IN
    IF hits = {} THEN 0 ELSE CHOOSE i \in hits : \A j \in hits : i <= j

QuotaOf(cfg, m) ==
    IF m = 0
    THEN [limiter |-> 0, limit |-> cfg.defaults.limit, intervalMs |-> 2000]
    ELSE [limiter |-> m, limit |-> cfg.rules[m].limit,
          intervalMs |-> IF m = 1 THEN 1000 ELSE 2000]

\* C4: rule precedence. The quota a consumption uses is that of the
\* lowest-index rule matching the path, the default quota exactly when no
\* rule matches, and X-RateLimit-Limit is the limit of that quota.
C4_RulePrecedence ==
    config # NoConfig =>
        \A c \in Consumptions :
            LET o == Entry(c)
                m == LowestMatch(config, o.path)
                pend == reqs[c[1]].pending
            IN /\ o.lim = m
               /\ (o.path = PathAuthIn) => o.lim = 1
               /\ (o.path = PathArtIn) => o.lim = 2
               /\ (o.path \in {PathArt, PathHc}) => o.lim = 0
               /\ ~o.answered =>
                     /\ pend.lim = m
                     /\ pend.limit = QuotaOf(config, m).limit
                     /\ pend.intervalMs = QuotaOf(config, m).intervalMs
               /\ o.answered => o.headers.limit = QuotaOf(config, m).limit

\* C4 witness: a path that both rules match has been answered with the limit
\* of the first rule, which differs from the default limit
C4_Witness ==
    /\ config # NoConfig
    /\ config.defaults.limit = 2
    /\ \E c \in Consumptions :
          /\ Entry(c).path = PathAuthIn
          /\ GlobMatch(config.rules[2].path, Entry(c).path)
          /\ Entry(c).answered
          /\ Entry(c).lim = 1
          /\ reqs[c[1]].headers.limit = 1

\* a path without its one trailing slash
Unslashed(q) ==
    IF Len(q) > 1 /\ q[Len(q)] = "/" THEN [i \in 1..(Len(q) - 1) |-> q[i]] ELSE q

\* C5: trailing-slash equivalence. A request for p and a request for p + '/'
\* consume under the quota resolved for p, from the bucket of their key
\* there, and each consumption counts one more in that bucket.
C5_TrailingSlash ==
    [][ \A r \in Slots :
          Consuming(r) =>
             LET o == Last(reqs'[r].out)
                 q == reqs'[r].path
                 p == Unslashed(q)
                 before == store[LowestMatch(config, p)][o.key]
                 after == store'[LowestMatch(config, p)][o.key]
             IN /\ o.path = p
                /\ o.lim = LowestMatch(config, p)
                /\ after.value =
                      IF Live(before) /\ before.expiresAt > clock
                      THEN before.value + 1 ELSE 1 ]_vars

\* C5 witness: a request for p + '/' is the second attempt counted in the
\* bucket of p
C5_Witness ==
    \E c \in Consumptions :
        /\ reqs[c[1]].path = PathArt \o Slash
        /\ Entry(c).path = PathArt
        /\ Entry(c).ord = 2
        /\ store[0][Entry(c).key].value = 2

\* the requests being handled
Handled == { r \in Slots : reqs[r].pc # "idle" }

\* the normalized path of the request matches an exclude pattern
OnExcludedPath(r) ==
    \E i \in 1..Len(config.exclude) :
        GlobMatch(config.exclude[i], Unslashed(reqs[r].path))

\* C7: exclusion bypass. A request whose normalized path matches an exclude
\* pattern makes no consumption in either middleware (and so no event call,
\* which only follows a consumption), gets no rate-limit header and no 429.
C7_ExclusionBypass ==
    config # NoConfig =>
        \A r \in Handled :
            OnExcludedPath(r) =>
                /\ reqs[r].out = << >>
                /\ reqs[r].headers = NoHeaders
                /\ reqs[r].status = 200

KeyListed(k) ==
    CASE k.kind = "ip" -> k.id = IpListed
      [] k.kind = "token" -> \E i \in 1..Len(config.allowlist.tokens) :
                                 config.allowlist.tokens[i] = k.id
      [] k.kind = "user" -> \E i \in 1..Len(config.allowlist.users) :
                                config.allowlist.users[i] = k.id
      [] OTHER -> FALSE

\* the resolved identity of a request: token, else user, else address
IdentityOf(req) ==
    IF req.auth.strategy = "api-token" THEN Key("token", NumStr(req.auth.credId))
    ELSE IF req.auth.strategy = "users-permissions"
    THEN Key("user", NumStr(req.auth.userId))
    ELSE Key("ip", req.ip)

C6_NormalizeIdempotent ==
    (fnIn.fn = "normalize") => fnOut.twice = fnOut.once

\* C6: normalization strips exactly one trailing slash, so it is idempotent
\* on every path that does not end in two slashes, and the normalized path
\* of such a path ends in no slash unless it is '/'.
C6_NormalizeIdempotentOneSlash ==
    (fnIn.fn = "normalize" /\ ~EndsWith(fnIn.path, << "/", "/" >>)) =>
        /\ fnOut.twice = fnOut.once
        /\ fnOut.once = Unslashed(fnIn.path)
        /\ (fnOut.once = Slash \/ Last(fnOut.once) # "/")

\* C6 witness: a path with one trailing slash has been normalized once and
\* twice to the path without it
C6_Witness ==
    /\ fnIn.fn = "normalize"
    /\ fnIn.path = << "/", "a", "/" >>
    /\ fnOut.once = << "/", "a" >>
    /\ fnOut.twice = << "/", "a" >>

\* bit b of an address, counted from the most significant
Bit(ip, b) ==
    LET ps == IF ip.kind = "ipv4" THEN 8 ELSE 16 IN
    (ip.parts[(b \div ps) + 1] \div (2 ^ (ps - 1 - (b % ps)))) % 2

BitLen(ip) == IF ip.kind = "ipv4" THEN 32 ELSE 128

\* the address lies in the subnet: same family, same leading bits
InSubnet(ip, cidr) ==
    /\ cidr.ok
    /\ cidr.kind = ip.kind
    /\ cidr.bits <= BitLen(ip)
    /\ \A b \in 0..(cidr.bits - 1) : Bit(ip, b) = Bit(cidr, b)

SameAddress(a, b) ==
    /\ a.kind = b.kind
    /\ \A i \in 0..(BitLen(a) - 1) : Bit(a, i) = Bit(b, i)

\* what allowlist.ips promises of an address and a list of entries
IpListedBy(text, entries) ==
    LET a == IpProcess(text) IN
    /\ a.ok
    /\ \E i \in 1..Len(entries) :
          IF HasSlash(entries[i])
          THEN InSubnet(a, CidrParse(entries[i]))
          ELSE /\ IpProcess(entries[i]).ok
               /\ SameAddress(a, IpProcess(entries[i]))

\* C10: IP allowlist matching. An address is allowlisted exactly when it
\* equals an exact entry after normalization or lies in the subnet of a CIDR
\* entry, malformed entries and unparsable addresses matching nothing, both
\* in the check of the global middleware and in service.isAllowlisted.
C10_IpAllowlistMatching ==
    /\ (fnIn.fn = "isIpInAllowlist") =>
          (fnOut.result <=> IpListedBy(fnIn.ip, fnIn.entries))
    /\ (fnIn.fn = "isAllowlisted" /\ fnIn.key.kind = "ip") =>
          (fnOut.result <=> IpListedBy(fnIn.key.id, fnIn.entries))

\* the ids a list of the allowlist holds
Members(list) == { list[i] : i \in 1..Len(list) }

\* C11: token and user allowlist matching. isAllowlisted answers true for a
\* token key exactly when its id is in allowlist.tokens, for a user key
\* exactly when its id is in allowlist.users, and false for a key of any
\* other prefix than ip, token and user.
C11_TokenUserAllowlist ==
    (fnIn.fn = "isAllowlisted") =>
        LET lists == PluginConfig(1, 0).allowlist IN
        /\ (fnIn.key.kind = "token") =>
              (fnOut.result <=> fnIn.key.id \in Members(lists.tokens))
        /\ (fnIn.key.kind = "user") =>
              (fnOut.result <=> fnIn.key.id \in Members(lists.users))
        /\ (fnIn.key.kind \notin {"ip", "token", "user"}) => ~fnOut.result

\* C11 witness: a user key whose id is listed among the tokens only has been
\* answered false
C11_Witness ==
    /\ fnIn.fn = "isAllowlisted"
    /\ fnIn.key = Key("user", "42")
    /\ "42" \in Members(PluginConfig(1, 0).allowlist.tokens)
    /\ "42" \notin Members(PluginConfig(1, 0).allowlist.users)
    /\ fnOut.result = FALSE

\* the decimal text of the ids the contexts carry
IdText(n) == IF n = 42 THEN "42" ELSE IF n = 99 THEN "99" ELSE "?"

\* C12: identity resolution priority. resolveClientKey returns the token key
\* of an API-token principal with an id, else the user key of a
\* users-permissions principal with a user id, else the ip key of the
\* CF-Connecting-IP header when the trust flag is on and the header present,
\* and of the peer address otherwise; ids are text and ctx stays as it was.
C12_IdentityResolution ==
    (fnIn.fn = "resolveClientKey") =>
        LET a == fnIn.ctx.auth
            k == fnOut.result
            isToken == a.strategy = "api-token" /\ a.credId # 0
            isUser == a.strategy = "users-permissions" /\ a.userId # 0
        IN /\ k.kind \in {"token", "user", "ip"}
           /\ isToken <=> k.kind = "token"
           /\ (~isToken /\ isUser) <=> k.kind = "user"
           /\ (k.kind = "token") => k.id = IdText(a.credId)
           /\ (k.kind = "user") => k.id = IdText(a.userId)
           /\ (k.kind = "ip" /\ fnIn.cloudflare /\ fnIn.ctx.cfIp # "") =>
                 k.id = fnIn.ctx.cfIp
           /\ (k.kind = "ip" /\ ~(fnIn.cloudflare /\ fnIn.ctx.cfIp # "")) =>
                 k.id = fnIn.ctx.ip
           /\ k.id \in STRING
           /\ fnOut.ctx = fnIn.ctx

\* C12 witness: a users-permissions request whose credentials carry an id
\* too has been resolved to its user key, the trusted header being present
C12_Witness ==
    /\ fnIn.fn = "resolveClientKey"
    /\ fnIn.cloudflare
    /\ fnIn.ctx.cfIp = "1.2.3.4"
    /\ fnIn.ctx.auth = [strategy |-> "users-permissions", credId |-> 42, userId |-> 99]
    /\ fnOut.result = Key("user", "99")

\* whether limiter.consume fails with an Error for the consumption that
\* request r starts in this step
BackendFails(r) ==
    LET e == reqs'[r].out[Len(reqs'[r].out)] IN
    LimiterConsume(config, strategy, redisReady, e.lim, store, e.key, clock).error

Awaiting(r) == reqs[r].pc \in {"globalWait", "routeWait"}

\* C13: when limiter.consume fails with an error that is no RateLimiterRes,
\* service.consume answers { allowed: true, res: null, limit: 0 } and logs
\* the error; the middleware that awaited it then calls next() once, leaves
\* status and headers as they were, records no event and logs nothing more.
C13_FailOpenOnBackendError ==
    [][\A r \in Slots :
          /\ (Consuming(r) /\ BackendFails(r)) =>
                /\ reqs'[r].pending.allowed
                /\ ~reqs'[r].pending.hasRes
                /\ reqs'[r].pending.limit = 0
                /\ reqs'[r].errors = reqs[r].errors + 1
          /\ (Awaiting(r) /\ ~reqs[r].pending.hasRes /\ reqs'[r] # reqs[r]) =>
                /\ reqs'[r].nextCalls = reqs[r].nextCalls + 1
                /\ reqs'[r].pc = IF reqs[r].pc = "globalWait"
                                 THEN Downstream(reqs[r]) ELSE "done"
                /\ reqs'[r].status = reqs[r].status
                /\ reqs'[r].body = reqs[r].body
                /\ reqs'[r].headers = reqs[r].headers
                /\ reqs'[r].errors = reqs[r].errors
                /\ events' = events
                /\ eventsTotal' = eventsTotal
                /\ warnedKeys' = warnedKeys
      ]_vars

\* both middlewares have failed open on one request: neither set a header
C13_Witness ==
    \E r \in Slots :
        /\ reqs[r].pc = "done"
        /\ Len(reqs[r].out) = 2
        /\ \A i \in 1..2 : ~reqs[r].out[i].hasRes /\ reqs[r].out[i].answered
        /\ reqs[r].nextCalls = 2
        /\ reqs[r].errors = 2
        /\ reqs[r].status = 200
        /\ reqs[r].headers = NoHeaders

\* the consumptions answered since the Redis server went away
DuringOutage == strategy = "redis" /\ ~redisReady

\* C15: insurance fallback keeps the same quota. While Redis is unreachable
\* (burst mode off), the attempt of a key under a quota of limit N is
\* admitted exactly when it is among the first N of that quota's window,
\* whatever the key has consumed under other quotas, and an admitted request
\* carries X-RateLimit-Limit N and X-RateLimit-Remaining N minus its rank.
C15_InsuranceSameQuota ==
    (DuringOutage /\ ~config.burst.enabled) =>
        \A c \in Consumptions :
            LET o == Entry(c) IN
            /\ o.allowed <=> o.ord <= o.points
            /\ (o.answered /\ o.allowed) =>
                  /\ o.headers.limit = o.points
                  /\ o.headers.remaining = o.points - o.adm

\* what a key may use of quota l in one window: the limit, and the burst
\* points when burst mode is on
Allowance(cfg, l) ==
    LimiterPoints(cfg, l) + (IF cfg.burst.enabled THEN cfg.burst.points ELSE 0)

\* C16: enforcement continues during an outage. While Redis is unreachable
\* after a successful initialize, no window of a key under a quota counts
\* more admissions than the quota's limit plus the burst points.
C16_EnforcementDuringOutage ==
    DuringOutage =>
        \A l \in LimiterIds, k \in AllKeys :
            windows[l][k].admitted <= Allowance(config, l)

\* where next() leads from the middleware that is running request r
NextOf(r) ==
    IF reqs[r].pc \in {"route", "routeWait"} THEN "done" ELSE Downstream(reqs'[r])

\* C14: engine-level fail-open. When a step of the global or the route-level
\* middleware throws, the exception does not leave the middleware: the
\* error is logged once and next() is called once, so the request reaches
\* what is downstream of that middleware.
C14_EngineFailOpen ==
    [][\A r \in Slots :
          (reqs'[r].faults = reqs[r].faults + 1) =>
              /\ reqs'[r].pc = NextOf(r)
              /\ reqs'[r].nextCalls = reqs[r].nextCalls + 1
              /\ reqs'[r].errors = reqs[r].errors + 1
              /\ events' = events
      ]_vars

\* a rejection whose recordEvent threw: status 429 and the headers are set,
\* no event was stored, and next() was called by both middlewares
C14_Witness ==
    \E r \in Slots :
        /\ reqs[r].pc = "done"
        /\ reqs[r].faults = 2
        /\ reqs[r].errors = 2
        /\ reqs[r].nextCalls = 2
        /\ reqs[r].status = 429
        /\ reqs[r].headers.retryAfter > 0
        /\ \A i \in 1..Len(events) : events[i].type # "blocked"

\* shouldWarn is called in this step
Called == fnOut'.calls = fnOut.calls + 1

\* the key has a suppression entry that has not expired
LiveEntry(map, key, t) ==
    \E i \in 1..Len(map) : map[i].key = key /\ t < map[i].expiry

EntriesOf(map, key) == { i \in 1..Len(map) : map[i].key = key }

\* C17: warning threshold. shouldWarn answers true exactly when the
\* threshold is not 0, consumed/limit has reached it and the key has no live
\* suppression entry; under threshold 0 it answers false and leaves the map
\* as it is; an answer of true leaves one entry for the key, expiring a
\* window from now.
C17_WarningThreshold ==
    [][Called =>
          LET th == config.thresholdWarning
              call == fnIn'
          IN
          /\ fnOut'.result <=>
                /\ th.num # 0
                /\ call.consumedPoints * th.den >= call.limit * th.num
                /\ ~LiveEntry(warnedKeys, call.key, clock)
          /\ (th.num = 0) => (~fnOut'.result /\ warnedKeys' = warnedKeys)
          /\ fnOut'.result =>
                /\ Cardinality(EntriesOf(warnedKeys', call.key)) = 1
                /\ \A i \in EntriesOf(warnedKeys', call.key) :
                      warnedKeys'[i].expiry = clock + call.windowDurationMs
      ]_vars

\* a key that stands exactly at the threshold has warned, after the clock
\* moved, and holds its entry
C17_Witness ==
    /\ fnOut.fn = "shouldWarn"
    /\ fnOut.result
    /\ fnIn.consumedPoints * 5 = fnIn.limit * 4
    /\ clock > 0
    /\ \E i \in 1..Len(warnedKeys) :
          warnedKeys[i] = [key |-> fnIn.key, expiry |-> clock + fnIn.windowDurationMs]

\* the expiries warnedKeys holds for a key: none or one
ExpiryOf(map, key) == { map[i].expiry : i \in EntriesOf(map, key) }

\* consumed/limit of the call has reached the configured threshold
OverThreshold(call) ==
    /\ config.thresholdWarning.num # 0
    /\ call.consumedPoints * config.thresholdWarning.den
          >= call.limit * config.thresholdWarning.num

\* what C18 says of a call for a key that warned at last.at with last.window
SuppressedThenRearmed(call, last) ==
    /\ (clock < last.at + last.window) =>
          /\ ~fnOut'.result
          /\ ExpiryOf(warnedKeys', call.key) = {last.at + last.window}
    /\ (clock >= last.at + last.window) =>
          /\ fnOut'.result <=> OverThreshold(call)
          /\ ~fnOut'.result => ExpiryOf(warnedKeys', call.key) = {}

\* C18 as stated: after a key warned at t with window w, each of its calls
\* before t + w answers false and keeps the expiry, a call from t + w on
\* drops the dead entry and is answered as for a key that never warned; a
\* call for another key leaves the entry of the key alone.
C18_DedupAndRearm ==
    [][Called =>
          \A k \in WarnKeys :
              /\ (k = fnIn'.key /\ fnOut.last[k].at >= 0) =>
                    SuppressedThenRearmed(fnIn', fnOut.last[k])
              /\ (k # fnIn'.key) =>
                    ExpiryOf(warnedKeys', k) = ExpiryOf(warnedKeys, k)
      ]_vars

\* C18, amended: the same for a key whose entry was not evicted since its
\* last warning; a call for another key leaves the entry of the key alone
\* unless warnedKeys is at its cap, the entry is the oldest and the call
\* warns, which removes it.
C18_DedupAndRearmUnlessEvicted ==
    [][Called =>
          \A k \in WarnKeys :
              /\ (k = fnIn'.key /\ fnOut.last[k].at >= 0 /\ k \notin fnOut.evicted) =>
                    SuppressedThenRearmed(fnIn', fnOut.last[k])
              /\ (k # fnIn'.key) =>
                    \/ ExpiryOf(warnedKeys', k) = ExpiryOf(warnedKeys, k)
                    \/ /\ Len(warnedKeys) = MAX_WARNED_KEYS
                       /\ warnedKeys[1].key = k
                       /\ fnOut'.result
                       /\ ExpiryOf(warnedKeys', k) = {}
      ]_vars

\* the first key of the full map warned again once its window was over, and
\* its new entry is the youngest
C18_Witness ==
    /\ fnOut.fn = "shouldWarn"
    /\ fnOut.result
    /\ fnIn.key = WarnKey(1)
    /\ fnOut.evicted = {}
    /\ fnOut.last[WarnKey(1)].at = 2 * TickMs
    /\ Len(warnedKeys) = MAX_WARNED_KEYS
    /\ warnedKeys[MAX_WARNED_KEYS].key = WarnKey(1)

\* C19: bounded suppression map. warnedKeys never holds more than
\* MAX_WARNED_KEYS entries; an insertion that finds it at the cap removes
\* the entry inserted first, whatever the expiries, and nothing else; a key
\* whose entry was evicted warns again as soon as it is over the threshold.
C19_BoundedMap ==
    [][/\ Len(warnedKeys) <= MAX_WARNED_KEYS
       /\ Len(warnedKeys') <= MAX_WARNED_KEYS
       /\ Called =>
             LET call == fnIn' IN
             /\ ( /\ fnOut'.result
                  /\ Len(warnedKeys) = MAX_WARNED_KEYS
                  /\ ExpiryOf(warnedKeys, call.key) = {} ) =>
                   /\ warnedKeys' =
                         Append(Tail(warnedKeys),
                                [key |-> call.key,
                                 expiry |-> clock + call.windowDurationMs])
                   /\ ExpiryOf(warnedKeys', warnedKeys[1].key) = {}
             /\ (call.key \in fnOut.evicted /\ OverThreshold(call)) => fnOut'.result
      ]_vars

\* the first key of the full map, evicted while its window ran, has warned
\* again inside that window, which evicted the second key
C19_Witness ==
    /\ fnOut.fn = "shouldWarn"
    /\ fnOut.result
    /\ fnIn.key = WarnKey(1)
    /\ clock < 2 * TickMs
    /\ WarnKey(2) \in fnOut.evicted
    /\ Len(warnedKeys) = MAX_WARNED_KEYS
    /\ warnedKeys[MAX_WARNED_KEYS].key = WarnKey(1)

\* a warning is emitted for key k in this step
Warns(k) == Called /\ fnOut'.result /\ fnIn'.key = k

\* C20 as stated: whatever calls for other keys lie in between, and in
\* whatever order the requests reach shouldWarn, two warnings for one key
\* are at least the window of the first apart.
C20_NoDuplicateWarning ==
    [][\A k \in WarnKeys :
          (Warns(k) /\ fnOut.last[k].at >= 0) =>
              clock >= fnOut.last[k].at + fnOut.last[k].window
      ]_vars

\* C20, amended: the same as long as the entry of the key was not evicted
\* between the two warnings.
C20_NoDuplicateUnlessEvicted ==
    [][\A k \in WarnKeys :
          (Warns(k) /\ fnOut.last[k].at >= 0 /\ k \notin fnOut.evicted) =>
              clock >= fnOut.last[k].at + fnOut.last[k].window
      ]_vars

\* a key warned, another key warned after it, and the first key, again over
\* the threshold inside its window, was not warned about a second time
C20_Witness ==
    /\ fnOut.fn = "shouldWarn"
    /\ ~fnOut.result
    /\ OverThreshold(fnIn)
    /\ Len(warnedKeys) = 2
    /\ warnedKeys[1].key = fnIn.key
    /\ clock < warnedKeys[1].expiry
    /\ fnOut.last[warnedKeys[2].key].at >= fnOut.last[fnIn.key].at
    /\ fnOut.calls = 3

\* the fields of an event that recordEvent was handed
SameFields(ev, e) ==
    /\ ev.type = e.type
    /\ ev.clientKey = e.key
    /\ ev.path = e.path
    /\ ev.source = e.source
    /\ ev.consumedPoints = e.consumedPoints
    /\ ev.limit = e.limit
    /\ ev.msBeforeNext = e.msBeforeNext

\* C21: event buffer window. After k calls of recordEvent and no clear,
\* getRecentEvents returns capacity 100, total k and the min(k, 100) events
\* recorded last, newest first, each with the fields it was recorded with; the
\* k - 100 oldest are gone when k > 100.
C21_EventWindow ==
    fnOut.clears = 0 =>
       LET k == Len(fnOut.history)
           res == GetRecentEvents(events, eventsTotal)
           n == Min(k, 100)
       IN /\ res.capacity = 100
          /\ res.total = k
          /\ Len(res.events) = n
          /\ \A i \in 1..n : /\ SameFields(res.events[i], fnOut.history[k - i + 1].input)
                             /\ res.events[i].id = fnOut.history[k - i + 1].id

\* 102 events recorded, the last one by the route-level middleware: the two
\* oldest are gone
C21_Witness ==
    /\ fnOut.clears = 0
    /\ Len(fnOut.history) = 102
    /\ eventsTotal = 102
    /\ Len(events) = 100
    /\ events[1].id = 3
    /\ events[100].source = "route"

\* the ids of a list of events go strictly down
Decreasing(list) == \A i \in 1..(Len(list) - 1) : list[i].id > list[i + 1].id

\* a step that records an event
Records == fnOut'.calls = fnOut.calls + 1

Clears == ClearsDone' = ClearsDone + 1

\* request r records an event in this step
RecordsEvent(r) ==
    /\ reqs[r].pc \in {"globalWait", "routeWait"}
    /\ reqs'[r].out # <<>>
    /\ Last(reqs'[r].out).event # NoVal

Resumes(r) ==
    /\ reqs[r].pc \in {"globalWait", "routeWait"}
    /\ reqs'[r].pc # reqs[r].pc

MwOf(r) == IF reqs[r].pc = "globalWait" THEN "global" ELSE "route"

\* the identity key a middleware limits request r by
IdentityKeyOf(mw, r) ==
    IF mw = "global"
    THEN Key("ip", ResolveClientIp(reqs[r], config.cloudflare))
    ELSE ResolveClientKey(reqs[r], config.cloudflare)

\* the events recorded in this step
Added == nextEventId' - nextEventId

\* what the recording rule says of the step in which a middleware goes on
\* after its consumption: one blocked event exactly when it answers 429, one
\* warning event exactly when it admits and shouldWarn returns true, and the
\* event carries the request's key, normalized path, source and the result
RecordedAsRuled(r) ==
    LET p == reqs[r].pending
        sw == ShouldWarn(config, warnedKeys, p.key, p.consumedPoints, p.limit,
                         p.intervalMs, clock).warn
        admitted == reqs'[r].nextCalls = reqs[r].nextCalls + 1
        newest == Last(events')
    IN /\ Added \in {0, 1}
       /\ eventsTotal' = eventsTotal + Added
       /\ (Added = 1 /\ newest.type = "blocked") <=> reqs'[r].status = 429
       /\ (Added = 1 /\ newest.type = "warning") <=> (p.hasRes /\ admitted /\ sw)
       /\ ~p.hasRes => Added = 0
       /\ Added = 1 =>
             /\ newest.id = nextEventId
             /\ newest.clientKey = IdentityKeyOf(MwOf(r), r)
             /\ newest.path = Unslashed(reqs[r].path)
             /\ newest.source = MwOf(r)
             /\ newest.consumedPoints = p.consumedPoints
             /\ newest.limit = p.limit
             /\ newest.msBeforeNext = p.msBeforeNext

\* a middleware that passes a request on without consuming records nothing,
\* no middleware consumes twice for a request, and none consumes for a
\* request outside the content API, with the engine disabled, or whose key
\* is in the allowlist the middleware checks
EventRuleStep ==
    /\ \A r \in Slots : Resumes(r) => RecordedAsRuled(r)
    /\ (\A r \in Slots : ~Resumes(r)) => UNCHANGED << events, eventsTotal, nextEventId >>
    /\ \A r \in Slots :
          LET out == reqs'[r].out IN
          /\ \A i, j \in 1..Len(out) : i < j => out[i].mw # out[j].mw
          /\ out # <<>> => /\ enabled
                           /\ IsContentApi(Unslashed(reqs'[r].path))
          /\ \A i \in 1..Len(out) :
                /\ out[i].mw = "global" =>
                      ~IsIpInAllowlist(out[i].key.id, config.allowlist.ips)
                /\ out[i].mw = "route" => ~IsAllowlisted(out[i].key, config)
                /\ ~out[i].hasRes => out[i].event = NoVal

\* no middleware has recorded an event for a request on an excluded path
ExcludedNoEvent ==
    config # NoConfig =>
       \A r \in Handled :
          OnExcludedPath(r) =>
             \A i \in 1..Len(reqs[r].out) : reqs[r].out[i].event = NoVal

\* C24: event recording rule. Each middleware records at most one event per
\* request: one blocked event if and only if it answers 429, one warning
\* event if and only if it admits the request and shouldWarn returned true,
\* none for a request that is excluded, allowlisted, not of the content API,
\* handled with the engine disabled or passed after a storage error; the
\* event carries the identity key, the normalized path, the source and
\* consumedPoints, limit and msBeforeNext of the result.
C24_EventRecordingRule == [][EventRuleStep /\ ExcludedNoEvent']_vars

\* Retry-After is at least one second for every msBeforeNext of 0..MaxMs
RetryAfterAtLeastOne == \A ms \in 0..MaxMs : RetryAfterSeconds(ms) >= 1

\* the middleware of request r learns in this step that the consumption was
\* rejected
Rejects(r) ==
    /\ Resumes(r)
    /\ reqs[r].pending.hasRes
    /\ ~reqs[r].pending.allowed

\* C25: rejection response. A rejected request gets status 429, the fixed
\* body, X-RateLimit-Limit equal to the limit of the quota resolved for its
\* path, X-RateLimit-Remaining 0, an X-RateLimit-Reset in seconds that is not
\* earlier than the current time nor than the end of the wait, and a
\* Retry-After of at least one second, whatever msBeforeNext >= 0 is.
C25_RejectionResponse ==
    [][\A r \in Slots :
          Rejects(r) =>
             LET p == reqs[r].pending
                 after == reqs'[r]
             IN /\ after.status = 429
                /\ after.body =
                      [data |-> NoVal,
                       error |-> [status |-> 429, name |-> "TooManyRequestsError",
                                  message |-> "Too many requests, please try again later.",
                                  details |-> <<>>]]
                /\ after.headers.limit =
                      QuotaOf(config, LowestMatch(config, Unslashed(reqs[r].path))).limit
                /\ after.headers.remaining = 0
                /\ after.headers.reset * 1000 >= clock
                /\ after.headers.reset * 1000 >= clock + p.msBeforeNext
                /\ after.headers.reset * 1000 < clock + p.msBeforeNext + 1000
                /\ after.headers.retryAfter >= 1
                /\ p.msBeforeNext >= 0
                /\ RetryAfterAtLeastOne]_vars

\* a request rejected under the first rule 400 ms before its window ends:
\* Math.round gives 0 and Retry-After is 1
C25_Witness ==
    \E r \in Slots :
       /\ reqs[r].status = 429
       /\ reqs[r].body = TOO_MANY_REQUESTS_BODY
       /\ reqs[r].headers = [limit |-> 1, remaining |-> 0, reset |-> 1, retryAfter |-> 1]
       /\ Last(reqs[r].out).lim = 1
       /\ clock = TickMs

\* the middleware a request is in: a request arrives in the global one
StageOf(pc) ==
    IF pc \in {"idle", "global", "globalWait"} THEN "global"
    ELSE IF pc \in {"route", "routeWait"} THEN "route"
    ELSE "over"

\* the middleware handling request r returns in this step
Finishes(r) ==
    /\ StageOf(reqs[r].pc) # "over"
    /\ StageOf(reqs'[r].pc) # StageOf(reqs[r].pc)

\* the calls of next() made for request r in this step
NextCallsNow(r) == reqs'[r].nextCalls - reqs[r].nextCalls

\* the middleware handling request r sets status 429 in this step: the
\* status is 429 afterwards, and it was not before or this middleware's
\* consumption was rejected
Sets429(r) == reqs'[r].status = 429 /\ (reqs[r].status # 429 \/ Rejects(r))

\* a step of the middleware handling request r
InMiddleware(r) == StageOf(reqs[r].pc) # "over" /\ reqs'[r] # reqs[r]

\* C26 as stated: a middleware invokes next at most once for a request,
\* exactly once when it passes the request, and never when it has set status
\* 429.
C26_PassBlockExclusive ==
    [][\A r \in Slots :
          InMiddleware(r) =>
             /\ NextCallsNow(r) \in {0, 1}
             /\ ~Finishes(r) => NextCallsNow(r) = 0
             /\ Finishes(r) => (NextCallsNow(r) = 1 <=> ~Sets429(r))]_vars

\* C26: PASS and BLOCK. A middleware invokes next at most once for a
\* request, and only as it returns; when no step of it throws it invokes
\* next exactly when it has not set status 429; when a step throws it
\* invokes next once, also when status 429 was set before the throw.
C26_PassBlockExclusiveUnlessThrown ==
    [][\A r \in Slots :
          InMiddleware(r) =>
             /\ NextCallsNow(r) \in {0, 1}
             /\ ~Finishes(r) => NextCallsNow(r) = 0
             /\ Finishes(r) =>
                   IF reqs'[r].faults = reqs[r].faults
                   THEN NextCallsNow(r) = 1 <=> ~Sets429(r)
                   ELSE NextCallsNow(r) = 1]_vars

\* the global middleware passed a request, the route-level one set status
\* 429 for it and then passed it on because recording the event threw
C26_Witness ==
    \E r \in Slots :
       /\ reqs[r].pc = "done"
       /\ reqs[r].status = 429
       /\ reqs[r].nextCalls = 2
       /\ reqs[r].faults = 1
       /\ Len(reqs[r].out) = 2
       /\ reqs[r].headers.retryAfter >= 1

\* X-RateLimit-Limit, X-RateLimit-Remaining and X-RateLimit-Reset are set
HeadersSet(h) == h.limit >= 1 /\ h.remaining >= 0 /\ h.reset >= 0

\* a request the engine limits: the engine is enabled, the path is one of
\* the content API and not excluded, and neither the client's address nor
\* its identity key is allowlisted
Limited(req) ==
    /\ enabled
    /\ IsContentApi(NormalizePath(req.path))
    /\ ~IsExcluded(config, NormalizePath(req.path))
    /\ ~IsIpInAllowlist(ResolveClientIp(req, config.cloudflare),
                        config.allowlist.ips)
    /\ ~IsAllowlisted(ResolveClientKey(req, config.cloudflare), config)

\* the global middleware returns for request r in this step
GlobalFinishes(r) ==
    /\ reqs[r].pc \in {"idle", "globalWait"}
    /\ reqs'[r].pc \notin {"idle", "global", "globalWait"}

\* the consumption of the middleware that resumes for request r gave the
\* fail-open result
FailOpenResult(r) ==
    reqs[r].pc \in {"globalWait", "routeWait"} /\ ~reqs[r].pending.hasRes

\* headers that are set stay set as long as the request is handled
HeadersKept(r) ==
    (HeadersSet(reqs[r].headers) /\ reqs'[r].pc # "idle")
       => HeadersSet(reqs'[r].headers)

\* C27 as stated: every limited request has the three headers set when the
\* global middleware returns, admitted or rejected, and keeps them.
C27_HeadersOnEveryLimited ==
    [][\A r \in Slots :
          /\ (GlobalFinishes(r) /\ Limited(reqs'[r]))
                => HeadersSet(reqs'[r].headers)
          /\ HeadersKept(r)]_vars

\* C27: headers on every limited request. A request to a content API path
\* that is neither excluded nor allowlisted, handled while the engine is
\* enabled, has the three headers set when the global middleware returns,
\* admitted or rejected, unless the consumption gave the fail-open result or
\* a step of the middleware threw; on the fail-open result the middleware
\* sets no header; headers that are set stay set.
C27_HeadersUnlessFailOpen ==
    [][\A r \in Slots :
          /\ (/\ GlobalFinishes(r)
              /\ Limited(reqs'[r])
              /\ reqs'[r].faults = reqs[r].faults
              /\ ~FailOpenResult(r))
                => HeadersSet(reqs'[r].headers)
          /\ FailOpenResult(r) => reqs'[r].headers = reqs[r].headers
          /\ HeadersKept(r)]_vars

\* a limited request was rejected without a throw after an earlier one was
\* admitted, and carries the three headers
C27_Witness ==
    \E r \in Slots :
       /\ reqs[r].pc = "done"
       /\ Limited(reqs[r])
       /\ reqs[r].faults = 0
       /\ reqs[r].status = 429
       /\ HeadersSet(reqs[r].headers)
       /\ reqs[r].headers.remaining = 0
       /\ reqs[r].out[1].mw = "global" /\ reqs[r].out[1].ord > 1
       /\ arrived >= 2

\* initialize runs in this step
Initializes == config = NoConfig /\ config' # NoConfig

\* a step of the initialization that runs in this step fails: a step throws,
\* or redisClient.connect() rejects
InitFails ==
    /\ Initializes
    /\ \/ fnIn' # fnIn
       \/ config'.redis /\ ~redisReady'

\* nothing is consumed, no header is set, no event is recorded, and no
\* request is answered 429 or waits for a consumption
NothingLimited ==
    /\ \A l \in StorageIds, k \in AllKeys : store[l][k] = NoRecord
    /\ events = <<>> /\ eventsTotal = 0
    /\ warnedKeys = <<>>
    /\ \A r \in Slots :
          /\ reqs[r].headers = NoHeaders
          /\ reqs[r].status = 200
          /\ reqs[r].body = NoBody
          /\ reqs[r].out = <<>>
          /\ reqs[r].pc \notin {"globalWait", "routeWait"}

\* C28: disabled engine. initialize returns whatever step of it fails; a
\* failed initialization leaves enabled = false, for good; and while the
\* engine is disabled every middleware calls next exactly once as it
\* returns, nothing is consumed, no header is set and no event is recorded.
C28_DisabledEngine ==
    [][/\ InitFails => (~enabled' /\ config' # NoConfig)
       /\ (config # NoConfig /\ ~enabled) => ~enabled'
       /\ ~enabled' => NothingLimited'
       /\ ~enabled => \A r \in Slots :
             /\ Finishes(r) => NextCallsNow(r) = 1
             /\ reqs'[r].errors = reqs[r].errors]_vars

\* initialization failed while the exclude patterns were compiled, after the
\* limiters were built, and a request of a user for the collection then
\* went through both middlewares untouched
C28_Witness ==
    /\ ~enabled
    /\ config # NoConfig
    /\ strategy # "none"
    /\ fnIn.fn = "initialize" /\ fnIn.failed = Len(InitSteps)
    /\ arrived >= 2
    /\ \E r \in Slots :
          /\ reqs[r].pc = "done"
          /\ reqs[r].path = PathArt
          /\ reqs[r].auth = User(99)
          /\ reqs[r].nextCalls = 2
          /\ reqs[r].headers = NoHeaders

\* request r is made by an authenticated user or API token and its route
\* has the route-level middleware
AuthenticatedOnRoute(req) ==
    /\ req.pc # "idle"
    /\ req.routeMw
    /\ ResolveClientKey(req, config.cloudflare).kind # "ip"

\* the points consumed under key k in the limiter storages
ConsumedUnder(st, k) == [l \in StorageIds |-> st[l][k].value]

\* C29: shared-IP isolation. With the route-level middleware applied, a
\* request made by an authenticated user or API token is counted in that
\* identity's own bucket: no step of its handling consumes from a bucket of
\* an 'ip:<address>' key, and the global middleware does not reject it.
C29_SharedIpIsolation ==
    [][\A r \in Slots :
          (enabled /\ AuthenticatedOnRoute(reqs'[r]) /\ reqs'[r] # reqs[r]) =>
             /\ \A k \in AllKeys :
                   k.kind = "ip" => ConsumedUnder(store', k) = ConsumedUnder(store, k)
             /\ \A i \in 1..Len(reqs'[r].out) :
                   reqs'[r].out[i].mw = "global" => reqs'[r].out[i].allowed]_vars

\* a counter has remaining capacity for a key: its record has run out, or
\* holds fewer than its points
HasCapacity(rec, points, t) ==
    ~(Live(rec) /\ rec.expiresAt > t) \/ rec.value < points

\* a middleware calls service.consume for request r in this step
Consumes(r) ==
    /\ reqs'[r].pc \in {"globalWait", "routeWait"}
    /\ reqs[r].pc \notin {"globalWait", "routeWait"}

\* the consumption made for request r in this step is as the burst allowance
\* says, the primary counter being the one that answers: the limiter's own,
\* or the insurance limiter's while Redis is away;
\* admitted exactly when the primary counter or else the burst counter
\* has capacity left; the burst counter left alone while the primary has
\* capacity and decremented once it has none; at most N + B admissions while
\* one primary window and the burst window begun in it both run, and exactly
\* that many before a rejection
BurstRule(r) ==
    LET p == reqs'[r].pending
        outage == strategy = "redis" /\ ~redisReady
        prim == IF outage THEN store[InsuranceStorage][p.key]
                ELSE store[StorageOf(p.lim)][p.key]
        bur == store[BurstStorageOf(p.lim)][p.key]
        burAfter == store'[BurstStorageOf(p.lim)][p.key]
        N == IF outage THEN config.defaults.limit
             ELSE LimiterPoints(config, p.lim)
        B == config.burst.points
        burstMs == Ms(config.burst.duration)
        w == windows'[p.lim][p.key]
        oneBurstWindow ==
           /\ InWindow(w, LimiterIntervalMs(config, p.lim), clock)
           /\ clock < w.start + burstMs
    IN
    /\ p.allowed <=> (HasCapacity(prim, N, clock) \/ HasCapacity(bur, B, clock))
    /\ HasCapacity(prim, N, clock) => burAfter = bur
    /\ (~HasCapacity(prim, N, clock) /\ HasCapacity(bur, B, clock)) =>
          /\ Live(burAfter) /\ burAfter.expiresAt > clock
          /\ burAfter.value =
                (IF Live(bur) /\ bur.expiresAt > clock THEN bur.value ELSE 0) + 1
    /\ oneBurstWindow => w.admitted <= N + B
    /\ (oneBurstWindow /\ ~p.allowed) => w.admitted = N + B

\* C30: burst allowance. With burst enabled (B points) on a quota of limit
\* N, a consumption is admitted if and only if the primary counter has
\* remaining capacity or, failing that, the burst counter has; the burst
\* counter is consulted and decremented only after the primary counter is
\* exhausted; a key gets exactly N + B admissions within a period covered by
\* one primary window and one burst window before it is rejected.
C30_BurstAllowance ==
    [][\A r \in Slots :
          (Consumes(r) /\ config.burst.enabled) => BurstRule(r)]_vars


\* the block duration the documentation gives the quota lim, seconds: the
\* rule's own blockDuration when it has one, else defaults.blockDuration
RuleBlockDuration(cfg, lim) ==
    IF lim # 0 /\ cfg.rules[lim].blockDuration # NoBlockDuration
    THEN cfg.rules[lim].blockDuration
    ELSE cfg.defaults.blockDuration

\* the consumption made for request r in this step is the first of its key
\* over the limit of its quota
FirstOver(r) ==
    /\ Consumes(r)
    /\ reqs'[r].pending.hasRes
    /\ ~reqs'[r].pending.allowed
    /\ reqs'[r].pending.consumedPoints = reqs'[r].pending.limit + 1

\* C31: per-rule block duration. A key that exceeds the limit of a quota is
\* blocked for the blockDuration of that quota, the rule's own when the rule
\* has one and defaults.blockDuration otherwise: the rejection that exceeds
\* the limit says to come back after that many seconds and the key's record
\* runs until then; with block duration 0 the record is not prolonged.
C31_PerRuleBlockDuration ==
    [][\A r \in Slots :
          (FirstOver(r) /\ ~config.burst.enabled) =>
             LET p == reqs'[r].pending
                 B == RuleBlockDuration(config, p.lim)
                 before == store[StorageOf(p.lim)][p.key]
                 after == store'[StorageOf(p.lim)][p.key]
             IN IF B > 0
                THEN /\ p.msBeforeNext = B * 1000
                     /\ after.expiresAt = clock + B * 1000
                ELSE /\ after.expiresAt = before.expiresAt
                     /\ p.msBeforeNext = before.expiresAt - clock]_vars

\* the block threshold the documentation gives a quota:
\* inMemoryBlock.consumedThreshold when it is not 0, else twice the limit
BlockThreshold(cfg, lim) ==
    IF cfg.inMemoryBlock.consumedThreshold # 0
    THEN cfg.inMemoryBlock.consumedThreshold
    ELSE 2 * LimiterPoints(cfg, lim)

\* C32: local block cache. In Redis mode with inMemoryBlock enabled, a key
\* is put among the locally blocked keys of a quota exactly by the rejected
\* consumption that brings its count to the block threshold or above it,
\* for inMemoryBlock.duration; while it is there every request for it under
\* that quota is rejected and Redis is not contacted; the threshold is
\* inMemoryBlock.consumedThreshold when that is not 0 and twice the quota's
\* limit otherwise, for the default quota and for every rule; in memory mode
\* no key is ever blocked locally.
C32_LocalBlockCache ==
    [][/\ strategy = "memory" =>
             \A l \in LimiterIds, k \in AllKeys :
                store'[BlockStorageOf(l)][k] = NoRecord
       /\ \A r \in Slots :
             (Consumes(r) /\ strategy = "redis" /\ config.inMemoryBlock.enabled) =>
                LET p == reqs'[r].pending
                    blk == store[BlockStorageOf(p.lim)][p.key]
                    blkAfter == store'[BlockStorageOf(p.lim)][p.key]
                    rec == store[StorageOf(p.lim)][p.key]
                    recAfter == store'[StorageOf(p.lim)][p.key]
                IN IF Live(blk) /\ blk.expiresAt > clock
                   THEN /\ ~p.allowed
                        /\ recAfter = rec
                        /\ blkAfter = blk
                   ELSE /\ recAfter.value = (IF Live(rec) /\ rec.expiresAt > clock
                                             THEN rec.value ELSE 0) + 1
                        /\ Live(blkAfter) <=>
                              (~p.allowed /\ recAfter.value >= BlockThreshold(config, p.lim))
                        /\ Live(blkAfter) =>
                              blkAfter.expiresAt =
                                 clock + Ms(config.inMemoryBlock.duration)]_vars

\* a quota as the statement wants it: a positive integer limit, an interval
\* that parses to a positive duration, and a blockDuration that is a number
\* from 0 to 86400 (a rule may leave it out)
QuotaValid(q, optional) ==
    /\ q.limit.t = "int" /\ q.limit.v > 0
    /\ q.interval.t = "string"
    /\ MsParse(q.interval.s).defined /\ MsParse(q.interval.s).ms > 0
    /\ \/ optional /\ q.blockDuration = Undefined
       \/ /\ q.blockDuration.t \in {"int", "half"}
          /\ q.blockDuration.v >= 0
          /\ ~Gt(q.blockDuration, MAX_BLOCK_DURATION)

QuotasValid(cfg) ==
    /\ QuotaValid(cfg.defaults, FALSE)
    /\ \A i \in 1..Len(cfg.rules) : QuotaValid(cfg.rules[i], TRUE)

\* C33: validation of quotas. The validator accepts a configuration only if
\* the defaults and every rule have a positive integer limit, an interval
\* that parses to a positive duration and a blockDuration that is a number
\* in [0, 86400]; otherwise it throws and leaves the configuration as it
\* was handed over.
C33_QuotaValidation ==
    fnOut.fn = "validator" =>
       /\ fnOut.result.ok => QuotasValid(fnIn.config)
       /\ ~QuotasValid(fnIn.config) =>
             (~fnOut.result.ok /\ fnOut.result.config = fnIn.config)

\* the points of a record that still runs at time t
PointsAt(rec, t) == IF Live(rec) /\ rec.expiresAt > t THEN rec.value ELSE 0

\* the route-level middleware runs for request r in this step, up to its
\* return or its await
RouteMwRuns(r) == reqs[r].pc = "route" /\ reqs'[r].pc # "route"

\* C34: the route-level middleware skips unauthenticated requests. When the
\* resolved key is 'ip:...' it calls next and consumes from no counter,
\* changes no header, records no event; when the key is 'token:' or 'user:'
\* and not allowlisted it consumes exactly one point from that key's bucket
\* under the quota resolved for the normalized path, and from no other.
C34_RouteSkipsUnauthenticated ==
    [][\A r \in Slots :
          (RouteMwRuns(r) /\ enabled) =>
             LET key == ResolveClientKey(reqs[r], config.cloudflare)
                 lim == Resolve(config, NormalizePath(reqs[r].path)).limiter
             IN IF key.kind = "ip"
                THEN /\ store' = store
                     /\ reqs'[r].headers = reqs[r].headers
                     /\ reqs'[r].status = reqs[r].status
                     /\ events' = events /\ eventsTotal' = eventsTotal
                     /\ warnedKeys' = warnedKeys
                     /\ reqs'[r].pc = "done"
                     /\ NextCallsNow(r) = 1
                ELSE IF IsAllowlisted(key, config)
                THEN store' = store /\ reqs'[r].pc = "done"
                ELSE /\ reqs'[r].pc = "routeWait"
                     /\ reqs'[r].pending.key = key
                     /\ reqs'[r].pending.lim = lim
                     /\ store'[StorageOf(lim)][key].value =
                           PointsAt(store[StorageOf(lim)][key], clock) + 1
                     /\ \A l \in StorageIds, k \in AllKeys :
                           (l # StorageOf(lim) \/ k # key) =>
                              store'[l][k] = store[l][k]]_vars

\* an anonymous request went through the route-level middleware untouched,
\* and the request of user 99 that followed waits for its consumption under
\* 'user:99', the first of that bucket
C34_Witness ==
    /\ enabled
    /\ arrived >= 2
    /\ \E r \in Slots :
          /\ reqs[r].pc = "routeWait"
          /\ reqs[r].pending.key = Key("user", "99")
          /\ reqs[r].pending.consumedPoints = 1
          /\ Len(reqs[r].out) = 2
          /\ windows[reqs[r].out[1].lim][reqs[r].out[1].key].attempts >= 2

\* the route-level middleware returns for request r in this step after its
\* consumption
RouteAnswers(r) == reqs[r].pc = "routeWait" /\ reqs'[r].pc # "routeWait"

\* the three X-RateLimit-* headers h are those of the consumption p at time t
BucketHeaders(h, p, t) ==
    /\ h.limit = p.limit
    /\ h.remaining = IF p.allowed THEN p.remainingPoints ELSE 0
    /\ h.reset = ResetSeconds(t, p.msBeforeNext)

\* the consumption of the global middleware for req was rejected
GlobalRejected(req) ==
    /\ Len(req.out) >= 1
    /\ req.out[1].mw = "global"
    /\ req.out[1].hasRes
    /\ ~req.out[1].allowed

Initializing == config = NoConfig \/ fnIn.fn = "connect"

\* the limiters, the rule matchers and the exclude matchers are built
Constructed == ~Initializing /\ strategy # "none" /\ enabled

\* C36: requests racing initialization. A request handled before initialize
\* has completed passes downstream: every middleware calls next once,
\* nothing is consumed, no header is set, no event is recorded; and no
\* request reaches resolve or consume while the limiters and matchers are not
\* fully constructed.
C36_RacingInitialization ==
    [][\A r \in Slots :
          /\ (Initializing /\ reqs'[r] # reqs[r]) =>
                /\ Finishes(r) => NextCallsNow(r) = 1
                /\ ~Consumes(r)
                /\ store' = store
                /\ reqs'[r].headers = NoHeaders
                /\ reqs'[r].status = 200
                /\ reqs'[r].out = <<>>
                /\ events' = events /\ eventsTotal' = eventsTotal
                /\ warnedKeys' = warnedKeys
          /\ Consumes(r) => Constructed]_vars

\* while initialize is suspended at the connection, a request of a user for
\* the collection went through both middlewares untouched
C36_Witness ==
    /\ fnIn.fn = "connect"
    /\ config # NoConfig
    /\ ~enabled
    /\ \E r \in Slots :
          /\ reqs[r].pc = "done"
          /\ reqs[r].path = PathArt
          /\ reqs[r].auth = User(99)
          /\ reqs[r].nextCalls = 2
          /\ reqs[r].headers = NoHeaders
          /\ reqs[r].out = <<>>

\* request req carries rate-limit headers
CarriesHeaders(req) == req.pc # "idle" /\ req.headers.limit # NoHeaders.limit

\* C37: header consistency. On every response that carries rate-limit
\* headers, in every strategy, 0 <= X-RateLimit-Remaining <= X-RateLimit-Limit
\* and X-RateLimit-Limit is the limit of the quota resolved for the request
\* path.
C37_HeaderConsistency ==
    \A r \in Slots :
       CarriesHeaders(reqs[r]) =>
          /\ 0 <= reqs[r].headers.remaining
          /\ reqs[r].headers.remaining <= reqs[r].headers.limit
          /\ reqs[r].headers.limit =
                Resolve(config, NormalizePath(reqs[r].path)).limit

\* the identities and addresses the allowlists of cfg let through
Allowlisted(cfg) ==
    { k \in AllKeys : IsAllowlisted(k, cfg) }
    \cup { Key("ip", ip) : ip \in { x \in ReqIps :
                                      IsIpInAllowlist(x, cfg.allowlist.ips) } }

\* C38: configuration is read-only after initialization. No operation of
\* request handling or of a caller of the service, reading or mutating the
\* object returned by the config getter and its nested allowlist, rules and
\* defaults included, changes the engine's effective quotas, rules,
\* allowlists or exclusions.
C38_ConfigReadOnly ==
    [][config # NoConfig =>
          /\ config'.defaults = config.defaults
          /\ config'.rules = config.rules
          /\ config'.exclude = config.exclude
          /\ Allowlisted(config') = Allowlisted(config)]_vars

\* the quota lim of cfg has block duration 0, as configured and as built
NoBlock(cfg, lim) ==
    RuleBlockDuration(cfg, lim) = 0 /\ LimiterBlockDuration(cfg, lim) = 0

\* C39: window reset. With blockDuration 0 a consumption made when no window
\* of the key runs under the quota - none yet, or the quota's interval has
\* elapsed since the window's first consumption - is admitted as the first
\* of a new window, with remaining = limit - 1; and a rejection happens only
\* inside a running window and names the time left until that window ends,
\* so that no key is rejected forever while time advances.
C39_WindowReset ==
    [][\A r \in Slots :
          (/\ Consumes(r)
           /\ reqs'[r].pending.hasRes
           /\ NoBlock(config, reqs'[r].pending.lim)) =>
             LET p == reqs'[r].pending
                 win == windows[p.lim][p.key]
                 iv == LimiterIntervalMs(config, p.lim)
             IN /\ ~InWindow(win, iv, clock) =>
                      /\ p.allowed
                      /\ p.consumedPoints = 1
                      /\ p.remainingPoints = p.limit - 1
                /\ ~p.allowed =>
                      /\ InWindow(win, iv, clock)
                      /\ p.msBeforeNext > 0
                      /\ p.msBeforeNext = win.start + iv - clock]_vars

\* a peer was rejected under the default quota, a blocked event says so, and
\* once the window had run out its next request was admitted as the first of
\* a new window
C39_Witness ==
    /\ \E i \in 1..Len(events) :
          /\ events[i].type = "blocked"
          /\ events[i].clientKey = Key("ip", IpOther)
          /\ events[i].path = PathArt
    /\ \E r \in Slots :
          /\ reqs[r].pc = "globalWait"
          /\ reqs[r].path = PathArt
          /\ reqs[r].pending.key = Key("ip", IpOther)
          /\ NoBlock(config, reqs[r].pending.lim)
          /\ reqs[r].pending.allowed
          /\ reqs[r].pending.consumedPoints = 1
          /\ reqs[r].pending.remainingPoints = reqs[r].pending.limit - 1
          /\ windows[reqs[r].pending.lim][reqs[r].pending.key].start = clock
          /\ clock > 0
====
